---- MODULE Spec2Model ----
(***************************************************************************)
(* Verification model of the ARM64 hypervisor core:                        *)
(*   - the GICv2 emulation (src/devices/gic.rs),                           *)
(*   - the interrupt facade (src/devices/interrupt.rs),                    *)
(*   - the software Generic Timer state (src/devices/timer.rs),            *)
(*   - the exit loop Hypervisor::run (src/lib.rs),                         *)
(*   - the MMIO bus (src/mmio.rs) and the PL011 UART (src/devices/uart.rs),*)
(*   - the VirtIO block device and its queue (src/devices/virtio),         *)
(*   - guest memory byte access and boot_linux (src/lib.rs).               *)
(*                                                                         *)
(* Bitmaps ([u32; 8]) are modelled as the set of IRQ numbers whose bit is  *)
(* set; register words written over MMIO are integers whose bits are       *)
(* decoded arithmetically.  Bus values in the model stay below 2^31.       *)
(***************************************************************************)
EXTENDS Integers, FiniteSets, Sequences, TLC

VARIABLES
    dist_enabled,      \* GicDistributor.enabled
    irq_enabled,       \* GicDistributor.irq_enabled  (set of IRQ numbers)
    irq_pending,       \* GicDistributor.irq_pending
    irq_active,        \* GicDistributor.irq_active
    irq_priority,      \* GicDistributor.irq_priority [0..255 -> 0..255]
    cpuif_enabled,     \* GicCpuInterface.enabled
    priority_mask,     \* GicCpuInterface.priority_mask
    running_irq,       \* GicCpuInterface.running_irq (NONE or IRQ number)
    running_priority,  \* GicCpuInterface.running_priority
    obs,               \* last GIC operation: name, argument, returned value
    pc,                \* position of the run thread in Hypervisor::run
    irq_line,          \* vCPU pending IRQ line (set_pending_interrupt IRQ)
    fiq_line,          \* vCPU pending FIQ line
    hw_ctl,            \* vCPU CNTV_CTL_EL0 (hardware virtual timer)
    hw_cval,           \* vCPU CNTV_CVAL_EL0
    virt_timer,        \* Timer.virt_timer  [ctl, cval]
    phys_timer,        \* Timer.phys_timer  [ctl, cval]
    now,               \* ticks elapsed since the hypervisor was created
    post_run,          \* locals post_run_ctl / post_run_cval / should_fire
    exit_info,         \* vcpu.get_exit_info() of the last run
    regs,              \* X0..X30
    vtimer_offset,     \* vcpu vtimer offset = host counter at creation
    virt_offset,       \* Timer.virt_offset (CNTVOFF_EL2)
    guest_pc,          \* vCPU PC
    result,            \* what run() returned (NoResult while it runs)
    trace,             \* calls made by the handler of the last exit
    guest_wrote_cval,  \* history: values the guest last wrote to CNTP_/CNTV_CVAL_EL0
    handlers,          \* MmioManager.handlers added by register, each with its device state
    stdout,            \* bytes the UART has printed, oldest first
    dev_obs,           \* last call made on a device or on the bus, with what it returned
    mem,               \* guest memory: the byte at each tracked address of the mapping
    cpsr               \* vCPU CPSR

gicVars == <<dist_enabled, irq_enabled, irq_pending, irq_active, irq_priority,
             cpuif_enabled, priority_mask, running_irq, running_priority>>

loopVars == <<pc, irq_line, fiq_line, hw_ctl, hw_cval, virt_timer, phys_timer,
              now, post_run, exit_info, regs, vtimer_offset, virt_offset,
              guest_pc, result, trace, guest_wrote_cval>>

memVars == <<mem, cpsr>>

devVars == <<handlers, stdout, dev_obs, memVars>>

vars == <<gicVars, obs, loopVars, devVars>>

(***************************************************************************)
(* Program constants                                                       *)
(***************************************************************************)
MAX_IRQS == 256
SPURIOUS == 1023
IDLE_PRIORITY == 255
DEFAULT_PRIORITY == 160
GIC_DIST_SIZE == 65536
GIC_CPU_SIZE == 65536
GIC_DIST_BASE == 134217728
GICD_CTLR == 0
GICD_ISENABLER == 256
GICD_ICENABLER == 384
GICD_ISPENDR == 512
GICD_ICPENDR == 640
GICD_IPRIORITYR == 1024
GICD_SGIR == 3840
GICC_CTLR == 0
GICC_PMR == 4
GICC_IAR == 12
GICC_EOIR == 16
GICC_RPR == 20
GICC_HPPIR == 24
PHYS_TIMER_IRQ == 30
VIRT_TIMER_IRQ == 27

NONE == -1

(***************************************************************************)
(* Bit helpers for register words                                          *)
(***************************************************************************)
Bit(v, b) == (v \div (2 ^ b)) % 2 = 1

\* IRQ numbers named by the set bits of a 32-bit bitmap word at index idx
WordIrqs(idx, v) == {32 * idx + b : b \in {c \in 0..30 : Bit(v, c)}}

\* the word at index idx of a bitmap
BitmapWord(bitmap, idx) ==
    LET bits == {b \in 0..30 : (32 * idx + b) \in bitmap}
        RECURSIVE Sum(_)
        Sum(S) == IF S = {} THEN 0
                  ELSE LET b == CHOOSE x \in S : TRUE IN (2 ^ b) + Sum(S \ {b})
    IN Sum(bits)

(***************************************************************************)
(* Gic::get_highest_pending_irq                                            *)
(***************************************************************************)
\* the IRQs that pass `is_enabled && is_pending && !is_active` in the loop
ScanCandidates ==
    {irq \in irq_pending : irq < MAX_IRQS /\ irq \in irq_enabled /\ irq \notin irq_active}

\* fault variant: a later IRQ of equal priority replaces the earlier one
RECURSIVE ScanTieLast(_, _, _)
ScanTieLast(cands, highest_irq, highest_priority) ==
    IF cands = {} THEN highest_irq
    ELSE LET irq == CHOOSE i \in cands : \A j \in cands : i <= j
             priority == irq_priority[irq]
         IN IF /\ priority < priority_mask
               /\ priority < running_priority
               /\ priority <= highest_priority
            THEN ScanTieLast(cands \ {irq}, irq, priority)
            ELSE ScanTieLast(cands \ {irq}, highest_irq, highest_priority)

\* the body of `for irq in 0..MAX_IRQS`, visiting the candidates in
\* ascending IRQ order and tracking (highest_irq, highest_priority)
RECURSIVE Scan(_, _, _)
Scan(cands, highest_irq, highest_priority) ==
    IF cands = {} THEN highest_irq
    ELSE LET irq == CHOOSE i \in cands : \A j \in cands : i <= j
             priority == irq_priority[irq]
         IN IF /\ priority < priority_mask
               /\ priority < running_priority
               /\ priority < highest_priority
            THEN Scan(cands \ {irq}, irq, priority)
            ELSE Scan(cands \ {irq}, highest_irq, highest_priority)

\* fault variant: the CPU interface enable is not consulted
get_highest_pending_irq_NoCpuIfCheck ==
    IF ~dist_enabled
    THEN NONE
    ELSE Scan(ScanCandidates, NONE, IDLE_PRIORITY)

get_highest_pending_irq ==
    IF ~dist_enabled \/ ~cpuif_enabled
    THEN NONE
    ELSE Scan(ScanCandidates, NONE, IDLE_PRIORITY)

has_pending_interrupt == get_highest_pending_irq /= NONE

(***************************************************************************)
(* Gic state changes.  Each is an action over the GIC variables.           *)
(***************************************************************************)
set_irq_pending(irq) ==
    /\ irq_pending' = IF irq < MAX_IRQS THEN irq_pending \cup {irq} ELSE irq_pending
    /\ UNCHANGED <<dist_enabled, irq_enabled, irq_active, irq_priority,
                   cpuif_enabled, priority_mask, running_irq, running_priority>>

clear_irq_pending_ClearsWord(irq) ==
    /\ irq_pending' = IF irq < MAX_IRQS
                      THEN {j \in irq_pending : j \div 32 /= irq \div 32}
                      ELSE irq_pending
    /\ UNCHANGED <<dist_enabled, irq_enabled, irq_active, irq_priority,
                   cpuif_enabled, priority_mask, running_irq, running_priority>>

clear_irq_pending(irq) ==
    /\ irq_pending' = IF irq < MAX_IRQS THEN irq_pending \ {irq} ELSE irq_pending
    /\ UNCHANGED <<dist_enabled, irq_enabled, irq_active, irq_priority,
                   cpuif_enabled, priority_mask, running_irq, running_priority>>

\* value returned by acknowledge_irq
acknowledge_irq_ret ==
    IF get_highest_pending_irq /= NONE THEN get_highest_pending_irq ELSE SPURIOUS

\* fault variant: an acknowledge clears every pending bit
acknowledge_irq_ClearsAllPending ==
    LET irq == get_highest_pending_irq IN
    IF irq /= NONE
    THEN /\ irq_active' = irq_active \cup {irq}
         /\ irq_pending' = {}
         /\ running_irq' = irq
         /\ running_priority' = irq_priority[irq]
         /\ UNCHANGED <<dist_enabled, irq_enabled, irq_priority,
                        cpuif_enabled, priority_mask>>
    ELSE UNCHANGED gicVars

\* fault variant: a spurious acknowledge drops the running interrupt
acknowledge_irq_SpuriousResets ==
    LET irq == get_highest_pending_irq IN
    IF irq /= NONE
    THEN /\ irq_active' = irq_active \cup {irq}
         /\ irq_pending' = irq_pending \ {irq}
         /\ running_irq' = irq
         /\ running_priority' = irq_priority[irq]
         /\ UNCHANGED <<dist_enabled, irq_enabled, irq_priority,
                        cpuif_enabled, priority_mask>>
    ELSE /\ running_irq' = NONE
         /\ running_priority' = IDLE_PRIORITY
         /\ UNCHANGED <<dist_enabled, irq_enabled, irq_pending, irq_active,
                        irq_priority, cpuif_enabled, priority_mask>>

\* fault variant: the acknowledged interrupt stays pending
acknowledge_irq_KeepPending ==
    LET irq == get_highest_pending_irq IN
    IF irq /= NONE
    THEN /\ irq_active' = irq_active \cup {irq}
         /\ running_irq' = irq
         /\ running_priority' = irq_priority[irq]
         /\ UNCHANGED <<dist_enabled, irq_enabled, irq_pending, irq_priority,
                        cpuif_enabled, priority_mask>>
    ELSE UNCHANGED gicVars

acknowledge_irq ==
    LET irq == get_highest_pending_irq IN
    IF irq /= NONE
    THEN /\ irq_active' = irq_active \cup {irq}
         /\ irq_pending' = irq_pending \ {irq}
         /\ running_irq' = irq
         /\ running_priority' = irq_priority[irq]
         /\ UNCHANGED <<dist_enabled, irq_enabled, irq_priority,
                        cpuif_enabled, priority_mask>>
    ELSE UNCHANGED gicVars

\* fault variant: the active bit survives the end of interrupt
end_of_interrupt_KeepActive(irq) ==
    IF irq < MAX_IRQS
    THEN /\ IF running_irq = irq
            THEN running_irq' = NONE /\ running_priority' = IDLE_PRIORITY
            ELSE UNCHANGED <<running_irq, running_priority>>
         /\ UNCHANGED <<dist_enabled, irq_enabled, irq_pending, irq_active,
                        irq_priority, cpuif_enabled, priority_mask>>
    ELSE UNCHANGED gicVars

\* fault variant: every end of interrupt resets the running state
end_of_interrupt_AlwaysIdle(irq) ==
    IF irq < MAX_IRQS
    THEN /\ irq_active' = irq_active \ {irq}
         /\ running_irq' = NONE
         /\ running_priority' = IDLE_PRIORITY
         /\ UNCHANGED <<dist_enabled, irq_enabled, irq_pending, irq_priority,
                        cpuif_enabled, priority_mask>>
    ELSE UNCHANGED gicVars

\* fault variant: the running IRQ stays recorded after its end of interrupt
end_of_interrupt_KeepsRunning(irq) ==
    IF irq < MAX_IRQS
    THEN /\ irq_active' = irq_active \ {irq}
         /\ UNCHANGED <<running_irq, running_priority>>
         /\ UNCHANGED <<dist_enabled, irq_enabled, irq_pending, irq_priority,
                        cpuif_enabled, priority_mask>>
    ELSE UNCHANGED gicVars

end_of_interrupt(irq) ==
    IF irq < MAX_IRQS
    THEN /\ irq_active' = irq_active \ {irq}
         /\ IF running_irq = irq
            THEN running_irq' = NONE /\ running_priority' = IDLE_PRIORITY
            ELSE UNCHANGED <<running_irq, running_priority>>
         /\ UNCHANGED <<dist_enabled, irq_enabled, irq_pending, irq_priority,
                        cpuif_enabled, priority_mask>>
    ELSE UNCHANGED gicVars

(***************************************************************************)
(* MMIO register face: Gic::read / Gic::write and the per-region handlers  *)
(***************************************************************************)
\* value returned by read_distributor(offset)
read_distributor_ret(o) ==
    IF o = GICD_CTLR THEN (IF dist_enabled THEN 1 ELSE 0)
    ELSE IF o >= GICD_ISENABLER /\ o < GICD_ISENABLER + 128
    THEN LET idx == (o - GICD_ISENABLER) \div 4
         IN IF idx < MAX_IRQS \div 32 THEN BitmapWord(irq_enabled, idx) ELSE 0
    ELSE IF o >= GICD_ISPENDR /\ o < GICD_ISPENDR + 128
    THEN LET idx == (o - GICD_ISPENDR) \div 4
         IN IF idx < MAX_IRQS \div 32 THEN BitmapWord(irq_pending, idx) ELSE 0
    ELSE 0

\* the IPRIORITYR arm of write_distributor: the four bytes of value go to the
\* priorities of IRQs base_idx .. base_idx + 3 that exist
write_priority(priority, base_idx, value) ==
    [irq \in 0..(MAX_IRQS - 1) |->
        IF irq >= base_idx /\ irq < base_idx + 4
        THEN (value \div (2 ^ ((irq - base_idx) * 8))) % 256
        ELSE priority[irq]]

\* write_distributor(offset, value)
write_distributor(o, value) ==
    IF o = GICD_CTLR
    THEN /\ dist_enabled' = (value % 2 /= 0)
         /\ UNCHANGED <<irq_enabled, irq_pending, irq_active, irq_priority,
                        cpuif_enabled, priority_mask, running_irq, running_priority>>
    ELSE IF o >= GICD_ISENABLER /\ o < GICD_ISENABLER + 128
    THEN LET idx == (o - GICD_ISENABLER) \div 4 IN
         /\ irq_enabled' = IF idx < MAX_IRQS \div 32
                           THEN irq_enabled \cup WordIrqs(idx, value)
                           ELSE irq_enabled
         /\ UNCHANGED <<dist_enabled, irq_pending, irq_active, irq_priority,
                        cpuif_enabled, priority_mask, running_irq, running_priority>>
    ELSE IF o >= GICD_ICENABLER /\ o < GICD_ICENABLER + 128
    THEN LET idx == (o - GICD_ICENABLER) \div 4 IN
         /\ irq_enabled' = IF idx < MAX_IRQS \div 32
                           THEN irq_enabled \ WordIrqs(idx, value)
                           ELSE irq_enabled
         /\ UNCHANGED <<dist_enabled, irq_pending, irq_active, irq_priority,
                        cpuif_enabled, priority_mask, running_irq, running_priority>>
    ELSE IF o >= GICD_ISPENDR /\ o < GICD_ISPENDR + 128
    THEN LET idx == (o - GICD_ISPENDR) \div 4 IN
         /\ irq_pending' = IF idx < MAX_IRQS \div 32
                           THEN irq_pending \cup WordIrqs(idx, value)
                           ELSE irq_pending
         /\ UNCHANGED <<dist_enabled, irq_enabled, irq_active, irq_priority,
                        cpuif_enabled, priority_mask, running_irq, running_priority>>
    ELSE IF o >= GICD_ICPENDR /\ o < GICD_ICPENDR + 128
    THEN LET idx == (o - GICD_ICPENDR) \div 4 IN
         /\ irq_pending' = IF idx < MAX_IRQS \div 32
                           THEN irq_pending \ WordIrqs(idx, value)
                           ELSE irq_pending
         /\ UNCHANGED <<dist_enabled, irq_enabled, irq_active, irq_priority,
                        cpuif_enabled, priority_mask, running_irq, running_priority>>
    ELSE IF o >= GICD_IPRIORITYR /\ o < GICD_IPRIORITYR + 1024
    THEN LET base_idx == o - GICD_IPRIORITYR IN
         /\ irq_priority' = write_priority(irq_priority, base_idx, value)
         /\ UNCHANGED <<dist_enabled, irq_enabled, irq_pending, irq_active,
                        cpuif_enabled, priority_mask, running_irq, running_priority>>
    ELSE IF o = GICD_SGIR
    THEN LET target_list == (value \div 65536) % 256
             sgi_id == value % 16
         IN IF target_list /= 0
            THEN set_irq_pending(sgi_id)
            ELSE UNCHANGED gicVars
    ELSE UNCHANGED gicVars

\* value returned by read_cpu_interface(offset)
read_cpu_interface_ret(o) ==
    IF o = GICC_CTLR THEN (IF cpuif_enabled THEN 1 ELSE 0)
    ELSE IF o = GICC_PMR THEN priority_mask
    ELSE IF o = GICC_IAR THEN acknowledge_irq_ret
    ELSE IF o = GICC_RPR THEN running_priority
    ELSE IF o = GICC_HPPIR
         THEN (IF get_highest_pending_irq /= NONE THEN get_highest_pending_irq ELSE SPURIOUS)
    ELSE 0

read_cpu_interface_HppirAcks(o) ==
    IF o = GICC_IAR \/ o = GICC_HPPIR THEN acknowledge_irq ELSE UNCHANGED gicVars

\* state change of read_cpu_interface(offset): only IAR has a side effect
read_cpu_interface(o) ==
    IF o = GICC_IAR THEN acknowledge_irq ELSE UNCHANGED gicVars

\* write_cpu_interface(offset, value)
write_cpu_interface(o, value) ==
    IF o = GICC_CTLR
    THEN /\ cpuif_enabled' = (value % 2 /= 0)
         /\ UNCHANGED <<dist_enabled, irq_enabled, irq_pending, irq_active,
                        irq_priority, priority_mask, running_irq, running_priority>>
    ELSE IF o = GICC_PMR
    THEN /\ priority_mask' = value % 256
         /\ UNCHANGED <<dist_enabled, irq_enabled, irq_pending, irq_active,
                        irq_priority, cpuif_enabled, running_irq, running_priority>>
    ELSE IF o = GICC_EOIR
    THEN end_of_interrupt(value % 1024)
    ELSE UNCHANGED gicVars

\* <Gic as MmioHandler>::read: value and state change
gic_read_ret(offset) ==
    IF offset < GIC_DIST_SIZE THEN read_distributor_ret(offset)
    ELSE IF offset < GIC_DIST_SIZE + GIC_CPU_SIZE
         THEN read_cpu_interface_ret(offset - GIC_DIST_SIZE)
    ELSE 0

gic_read(offset) ==
    IF offset >= GIC_DIST_SIZE /\ offset < GIC_DIST_SIZE + GIC_CPU_SIZE
    THEN read_cpu_interface(offset - GIC_DIST_SIZE)
    ELSE UNCHANGED gicVars

\* <Gic as MmioHandler>::write
gic_write(offset, value) ==
    IF offset < GIC_DIST_SIZE THEN write_distributor(offset, value)
    ELSE IF offset < GIC_DIST_SIZE + GIC_CPU_SIZE
         THEN write_cpu_interface(offset - GIC_DIST_SIZE, value)
    ELSE UNCHANGED gicVars

\* the register an access at `offset` names, for the observation record
RegName(offset) ==
    IF offset = GIC_DIST_SIZE + GICC_IAR THEN "IAR"
    ELSE IF offset = GIC_DIST_SIZE + GICC_EOIR THEN "EOIR"
    ELSE IF offset = GIC_DIST_SIZE + GICC_HPPIR THEN "HPPIR"
    ELSE "other"

\* observation of an operation no property names
OtherObs == [op |-> "other", arg |-> 0, ret |-> 0, hit |-> FALSE, after |-> NONE]

\* observation of an MMIO read: the value it returned and, when the operation
\* before it was an EOIR write for an active IRQ, that IRQ
ObsRead(offset) ==
    IF RegName(offset) = "other" THEN OtherObs
    ELSE [op |-> RegName(offset), arg |-> 0, ret |-> gic_read_ret(offset), hit |-> FALSE,
          after |-> IF obs.op = "EOIR" /\ obs.hit THEN obs.arg ELSE NONE]

\* observation of an MMIO write: for EOIR the IRQ number written and whether
\* that IRQ was active before the write
ObsWrite(offset, value) ==
    IF RegName(offset) = "EOIR"
    THEN [op |-> "EOIR", arg |-> value % 1024, ret |-> 0,
          hit |-> (value % 1024) \in irq_active, after |-> NONE]
    ELSE OtherObs

(***************************************************************************)
(* Inputs of the environment (devices, guest, tests), drawn from small     *)
(* sets chosen to exercise priorities, ties, masking and disabled IRQs.    *)
(***************************************************************************)
\* IRQs raised / cleared through set_irq_pending / clear_irq_pending:
\* two PPIs enabled at reset, one SPI disabled at reset, one out of range
RaisedIrqs == {VIRT_TIMER_IRQ, PHYS_TIMER_IRQ, 32, MAX_IRQS}

\* offsets read over MMIO
ReadOffsets ==
    {GIC_DIST_SIZE + GICC_IAR, GIC_DIST_SIZE + GICC_HPPIR,
     GIC_DIST_SIZE + GICC_RPR, GICD_ISPENDR}

\* <<offset, value>> pairs written over MMIO
GicWrites ==
    {<<GICD_CTLR, 1>>, <<GICD_CTLR, 0>>,
     <<GIC_DIST_SIZE + GICC_CTLR, 1>>, <<GIC_DIST_SIZE + GICC_CTLR, 0>>,
     <<GICD_ISENABLER + 4, 1>>, <<GICD_ICENABLER + 4, 1>>,
     <<GICD_IPRIORITYR + VIRT_TIMER_IRQ, 128>>,
     <<GICD_IPRIORITYR + PHYS_TIMER_IRQ, 128>>,
     <<GIC_DIST_SIZE + GICC_PMR, 160>>, <<GIC_DIST_SIZE + GICC_PMR, 255>>,
     <<GIC_DIST_SIZE + GICC_EOIR, VIRT_TIMER_IRQ>>,
     <<GIC_DIST_SIZE + GICC_EOIR, PHYS_TIMER_IRQ>>,
     <<GIC_DIST_SIZE + GICC_EOIR, 32>>,
     <<GIC_DIST_SIZE + GICC_EOIR, SPURIOUS>>}

(***************************************************************************)
(* Initial state: Gic::new(), Timer::new(), Hypervisor::new()              *)
(***************************************************************************)
\* exit information; the 32-bit syndrome is kept as its EC field (bits 31:26)
\* and its ISS field (bits 24:0)
NoExit == [reason |-> "NONE", ec |-> 0, iss |-> 0, physical_address |-> 0]

\* the guest has written neither compare register
NotWritten == [phys |-> NONE, virt |-> NONE]

\* run() has not returned
NoResult == [returned |-> FALSE]

\* the handler of the last exit made no bus call and did not sleep
NoTrace == [mmio |-> "none", addr |-> 0, value |-> 0, size |-> 0, slept |-> 0]

\* the mapping made by Hypervisor::new(0x40000000, 128 MiB)
MEM_BASE == 1073741824
MEM_SIZE == 134217728
DEFAULT_ENTRY == 1074266112
DEFAULT_DTB_ADDR == 1140850688
DEFAULT_CPSR == 964
BOOT_CPSR == 965

\* the addresses whose bytes the model keeps, whole words each: the first two
\* and the last word of the mapping, two words at the default kernel entry,
\* and the word below and two words at the default DTB address; bytes at
\* other mapped addresses exist but are not recorded
Tracked ==
    (MEM_BASE..(MEM_BASE + 7))
    \cup ((MEM_BASE + MEM_SIZE - 4)..(MEM_BASE + MEM_SIZE - 1))
    \cup (DEFAULT_ENTRY..(DEFAULT_ENTRY + 7))
    \cup ((DEFAULT_DTB_ADDR - 4)..(DEFAULT_DTB_ADDR + 7))

\* no call has been made on a device yet; tval is the history of TVAL writes,
\* before the pending set a set_irq_pending call found, written the history
\* of the low bytes written to the UART data register, fifo the descriptor
\* heads made available on the virtqueue and not yet returned by pop_avail,
\* popped the number of heads the call took from the available ring, image
\* the kernel bytes handed to boot_linux
NoTvalWrite == [written |-> FALSE, value |-> 0, at |-> 0]

NoCall ==
    [op |-> "none", reg |-> "NONE", addr |-> 0, value |-> 0, ret |-> 0, before |-> {},
     tval |-> [phys |-> NoTvalWrite, virt |-> NoTvalWrite], written |-> <<>>,
     fifo |-> <<>>, popped |-> 0, image |-> <<>>]

\* a call that is neither a TVAL access nor a register access
Call(name, value, ret) ==
    [NoCall EXCEPT !.op = name, !.value = value, !.ret = ret, !.tval = dev_obs.tval,
                   !.written = dev_obs.written, !.fifo = dev_obs.fifo,
                   !.image = dev_obs.image]

InitGicState ==
    /\ dist_enabled = FALSE
    /\ irq_enabled = 0..31
    /\ irq_pending = {}
    /\ irq_active = {}
    /\ irq_priority = [irq \in 0..(MAX_IRQS - 1) |-> DEFAULT_PRIORITY]
    /\ cpuif_enabled = FALSE
    /\ priority_mask = 255
    /\ running_irq = NONE
    /\ running_priority = IDLE_PRIORITY

(***************************************************************************)
(* Operations on the GIC, as calls (Gic / InterruptController methods)     *)
(***************************************************************************)
GicSetIrqPending ==
    \E irq \in RaisedIrqs :
        /\ set_irq_pending(irq)
        /\ obs' = OtherObs
        /\ UNCHANGED <<loopVars, devVars>>

GicClearIrqPending ==
    \E irq \in RaisedIrqs :
        /\ clear_irq_pending(irq)
        /\ obs' = OtherObs
        /\ UNCHANGED <<loopVars, devVars>>

GicMmioRead ==
    \E offset \in ReadOffsets :
        /\ gic_read(offset)
        /\ obs' = ObsRead(offset)
        /\ UNCHANGED <<loopVars, devVars>>

GicMmioWrite ==
    \E w \in GicWrites :
        /\ gic_write(w[1], w[2])
        /\ obs' = ObsWrite(w[1], w[2])
        /\ UNCHANGED <<loopVars, devVars>>

(***************************************************************************)
(* Bounds of the model                                                     *)
(***************************************************************************)
\* width of the counters and compare values, in bits
CounterBits == 3
\* ticks that elapse while the model runs
MaxTime == 2
\* host counter value when the hypervisor is created
MaxBootTicks == 1

\* i64::MAX at the model's counter width
I64_MAX == 2 ^ (CounterBits - 1) - 1

CounterMod == 2 ^ CounterBits

(***************************************************************************)
(* Software timer (timer.rs)                                               *)
(***************************************************************************)
\* TimerState::is_enabled / is_masked / is_asserted / should_interrupt
is_enabled(t) == t.ctl % 2 /= 0

is_masked(t) == (t.ctl \div 2) % 2 /= 0

is_asserted(t, counter) == is_enabled(t) /\ counter >= t.cval

should_interrupt(t, counter) == is_asserted(t, counter) /\ ~is_masked(t)

write_ctl_KeepsAllBits(t, value) == [t EXCEPT !.ctl = value]

\* TimerState::write_ctl keeps ENABLE and IMASK only
write_ctl(t, value) == [t EXCEPT !.ctl = value % 4]

write_cval(t, value) == [t EXCEPT !.cval = value]

\* Timer::get_phys_counter / get_virt_counter
get_phys_counter == now % CounterMod

get_virt_counter == (get_phys_counter - virt_offset) % CounterMod

\* ctl_bits::ISTATUS
ISTATUS == 4

\* TimerState::read_ctl: the stored ENABLE and IMASK, plus ISTATUS when asserted
read_ctl(t, counter) == (t.ctl % 4) + (IF is_asserted(t, counter) THEN ISTATUS ELSE 0)

read_cval(t) == t.cval

\* TimerState::read_tval / write_tval: wrapping arithmetic at the counter width
read_tval(t, counter) == (t.cval - counter) % CounterMod

write_tval_Absolute(t, value, counter) == [t EXCEPT !.cval = value]

write_tval(t, value, counter) == [t EXCEPT !.cval = (counter + value) % CounterMod]

\* counter frequency reported by CNTFRQ_EL0
TIMER_FREQ == 24000000

get_frequency == TIMER_FREQ

from_encoding_IgnoresCrn(op0, op1, crn, crm, op2) ==
    CASE <<op0, op1, crm, op2>> = <<3, 3, 0, 0>> -> "CNTFRQ_EL0"
      [] <<op0, op1, crm, op2>> = <<3, 3, 0, 1>> -> "CNTPCT_EL0"
      [] <<op0, op1, crm, op2>> = <<3, 3, 0, 2>> -> "CNTVCT_EL0"
      [] <<op0, op1, crm, op2>> = <<3, 3, 2, 0>> -> "CNTP_TVAL_EL0"
      [] <<op0, op1, crm, op2>> = <<3, 3, 2, 1>> -> "CNTP_CTL_EL0"
      [] <<op0, op1, crm, op2>> = <<3, 3, 2, 2>> -> "CNTP_CVAL_EL0"
      [] <<op0, op1, crm, op2>> = <<3, 3, 3, 0>> -> "CNTV_TVAL_EL0"
      [] <<op0, op1, crm, op2>> = <<3, 3, 3, 1>> -> "CNTV_CTL_EL0"
      [] <<op0, op1, crm, op2>> = <<3, 3, 3, 2>> -> "CNTV_CVAL_EL0"
      [] <<op0, op1, crm, op2>> = <<3, 4, 0, 3>> -> "CNTVOFF_EL2"
      [] OTHER -> "NONE"

\* TimerReg::from_encoding: the register an (op0, op1, crn, crm, op2) names
from_encoding(op0, op1, crn, crm, op2) ==
    IF crn /= 14 THEN "NONE"
    ELSE CASE <<op0, op1, crm, op2>> = <<3, 3, 0, 0>> -> "CNTFRQ_EL0"
           [] <<op0, op1, crm, op2>> = <<3, 3, 0, 1>> -> "CNTPCT_EL0"
           [] <<op0, op1, crm, op2>> = <<3, 3, 0, 2>> -> "CNTVCT_EL0"
           [] <<op0, op1, crm, op2>> = <<3, 3, 2, 0>> -> "CNTP_TVAL_EL0"
           [] <<op0, op1, crm, op2>> = <<3, 3, 2, 1>> -> "CNTP_CTL_EL0"
           [] <<op0, op1, crm, op2>> = <<3, 3, 2, 2>> -> "CNTP_CVAL_EL0"
           [] <<op0, op1, crm, op2>> = <<3, 3, 3, 0>> -> "CNTV_TVAL_EL0"
           [] <<op0, op1, crm, op2>> = <<3, 3, 3, 1>> -> "CNTV_CTL_EL0"
           [] <<op0, op1, crm, op2>> = <<3, 3, 3, 2>> -> "CNTV_CVAL_EL0"
           [] <<op0, op1, crm, op2>> = <<3, 4, 0, 3>> -> "CNTVOFF_EL2"
           [] OTHER -> "NONE"

\* Timer::read_sysreg
read_sysreg(reg) ==
    LET phys_counter == get_phys_counter
        virt_counter == get_virt_counter
    IN CASE reg = "CNTFRQ_EL0" -> get_frequency
         [] reg = "CNTPCT_EL0" -> phys_counter
         [] reg = "CNTVCT_EL0" -> virt_counter
         [] reg = "CNTP_CTL_EL0" -> read_ctl(phys_timer, phys_counter)
         [] reg = "CNTP_CVAL_EL0" -> read_cval(phys_timer)
         [] reg = "CNTP_TVAL_EL0" -> read_tval(phys_timer, phys_counter)
         [] reg = "CNTV_CTL_EL0" -> read_ctl(virt_timer, virt_counter)
         [] reg = "CNTV_CVAL_EL0" -> read_cval(virt_timer)
         [] reg = "CNTV_TVAL_EL0" -> read_tval(virt_timer, virt_counter)
         [] reg = "CNTVOFF_EL2" -> virt_offset

\* Timer::write_sysreg; value is at the counter width
write_sysreg(reg, value) ==
    LET phys_counter == get_phys_counter
        virt_counter == get_virt_counter
    IN CASE reg \in {"CNTFRQ_EL0", "CNTPCT_EL0", "CNTVCT_EL0"} ->
                UNCHANGED <<phys_timer, virt_timer, virt_offset>>
         [] reg = "CNTP_CTL_EL0" ->
                phys_timer' = write_ctl(phys_timer, value)
                /\ UNCHANGED <<virt_timer, virt_offset>>
         [] reg = "CNTP_CVAL_EL0" ->
                phys_timer' = write_cval(phys_timer, value)
                /\ UNCHANGED <<virt_timer, virt_offset>>
         [] reg = "CNTP_TVAL_EL0" ->
                phys_timer' = write_tval(phys_timer, value, phys_counter)
                /\ UNCHANGED <<virt_timer, virt_offset>>
         [] reg = "CNTV_CTL_EL0" ->
                virt_timer' = write_ctl(virt_timer, value)
                /\ UNCHANGED <<phys_timer, virt_offset>>
         [] reg = "CNTV_CVAL_EL0" ->
                virt_timer' = write_cval(virt_timer, value)
                /\ UNCHANGED <<phys_timer, virt_offset>>
         [] reg = "CNTV_TVAL_EL0" ->
                virt_timer' = write_tval(virt_timer, value, virt_counter)
                /\ UNCHANGED <<phys_timer, virt_offset>>
         [] reg = "CNTVOFF_EL2" ->
                virt_offset' = value
                /\ UNCHANGED <<phys_timer, virt_timer>>

\* Timer::time_until_next_event: nanoseconds until the earliest enabled,
\* unmasked timer is due (ticks * 10^9 / TIMER_FREQ), NONE when there is none
time_until_next_event ==
    LET phys_counter == get_phys_counter
        virt_counter == get_virt_counter
        phys_ticks == IF is_enabled(phys_timer) /\ ~is_masked(phys_timer)
                         /\ phys_timer.cval > phys_counter
                      THEN {phys_timer.cval - phys_counter}
                      ELSE {}
        virt_ticks == IF is_enabled(virt_timer) /\ ~is_masked(virt_timer)
                         /\ virt_timer.cval > virt_counter
                      THEN {virt_timer.cval - virt_counter}
                      ELSE {}
        min_ticks == phys_ticks \cup virt_ticks
    IN IF min_ticks = {}
       THEN NONE
       ELSE LET ticks == CHOOSE m \in min_ticks : \A n \in min_ticks : m <= n
            IN (ticks * 125) \div (TIMER_FREQ \div 8000000)

phys_timer_pending == should_interrupt(phys_timer, get_phys_counter)

virt_timer_pending == should_interrupt(virt_timer, get_virt_counter)

(***************************************************************************)
(* Interrupt facade (interrupt.rs)                                         *)
(***************************************************************************)
\* Timer::get_pending_irqs
get_pending_irqs ==
    (IF phys_timer_pending THEN <<PHYS_TIMER_IRQ>> ELSE <<>>)
        \o (IF virt_timer_pending THEN <<VIRT_TIMER_IRQ>> ELSE <<>>)

poll_timer_irqs_IgnoresMask ==
    /\ irq_pending' = irq_pending
                        \cup (IF is_asserted(phys_timer, get_phys_counter)
                              THEN {PHYS_TIMER_IRQ} ELSE {})
                        \cup (IF is_asserted(virt_timer, get_virt_counter)
                              THEN {VIRT_TIMER_IRQ} ELSE {})
    /\ UNCHANGED <<dist_enabled, irq_enabled, irq_active, irq_priority,
                   cpuif_enabled, priority_mask, running_irq, running_priority>>

\* InterruptController::poll_timer_irqs
poll_timer_irqs ==
    /\ irq_pending' = irq_pending
                        \cup (IF phys_timer_pending THEN {PHYS_TIMER_IRQ} ELSE {})
                        \cup (IF virt_timer_pending THEN {VIRT_TIMER_IRQ} ELSE {})
    /\ UNCHANGED <<dist_enabled, irq_enabled, irq_active, irq_priority,
                   cpuif_enabled, priority_mask, running_irq, running_priority>>

\* InterruptController::has_pending_irq
has_pending_irq == get_highest_pending_irq /= NONE

(***************************************************************************)
(* MMIO bus with the GIC handle registered by Hypervisor::new              *)
(***************************************************************************)
InGicRange(addr) == addr >= GIC_DIST_BASE /\ addr < GIC_DIST_BASE + GIC_DIST_SIZE + GIC_CPU_SIZE

handle_read_ret(addr) == IF InGicRange(addr) THEN gic_read_ret(addr - GIC_DIST_BASE) ELSE 0

handle_read(addr) ==
    IF InGicRange(addr)
    THEN gic_read(addr - GIC_DIST_BASE) /\ obs' = ObsRead(addr - GIC_DIST_BASE)
    ELSE UNCHANGED <<gicVars, obs>>

handle_write(addr, value) ==
    IF InGicRange(addr)
    THEN gic_write(addr - GIC_DIST_BASE, value) /\ obs' = ObsWrite(addr - GIC_DIST_BASE, value)
    ELSE UNCHANGED <<gicVars, obs>>

\* A 64-bit register value is the tuple of its four 16-bit limbs, most
\* significant first; U64(n) is the value of a natural number n < 2^31 and
\* Lo31(u) the low 31 bits of u, the part of a value the bus model carries.
U64(n) == <<0, 0, n \div 65536, n % 65536>>

Lo31(u) == (u[3] % 32768) * 65536 + u[4]

\* get_register_by_index / set_register_by_index: index 31 is XZR
get_register_by_index(index) == IF index <= 30 THEN regs[index] ELSE U64(0)

set_register_by_index_NoXzr(index, value) ==
    [regs EXCEPT ![IF index <= 30 THEN index ELSE 30] = value]

set_register_by_index(index, value) ==
    IF index <= 30 THEN [regs EXCEPT ![index] = value] ELSE regs

(***************************************************************************)
(* PSCI over HVC (lib.rs handle_hvc)                                       *)
(***************************************************************************)
\* a 32-bit function id or result 0xHHHH_LLLL as a 64-bit value
Word32(hi, lo) == <<0, 0, hi, lo>>

\* a negative PSCI error code -n as a 64-bit value (two's complement)
Neg64(n) == <<65535, 65535, 65535, 65536 - n>>

handle_hvc_ret_FeaturesAll(function_id, queried_func) ==
    CASE function_id = Word32(33792, 0) -> [continue |-> TRUE, x0 |-> Word32(1, 0)]
      [] function_id = Word32(50176, 1) -> [continue |-> TRUE, x0 |-> U64(0)]
      [] function_id = Word32(33792, 2) -> [continue |-> FALSE, x0 |-> function_id]
      [] function_id = Word32(50176, 3) -> [continue |-> TRUE, x0 |-> Neg64(4)]
      [] function_id = Word32(50176, 4) -> [continue |-> TRUE, x0 |-> U64(0)]
      [] function_id = Word32(33792, 8) -> [continue |-> FALSE, x0 |-> function_id]
      [] function_id = Word32(33792, 9) -> [continue |-> FALSE, x0 |-> function_id]
      [] function_id = Word32(33792, 10) -> [continue |-> TRUE, x0 |-> U64(0)]
      [] OTHER -> [continue |-> TRUE, x0 |-> Neg64(1)]

handle_hvc_ret_OffContinues(function_id, queried_func) ==
    CASE function_id = Word32(33792, 0) -> [continue |-> TRUE, x0 |-> Word32(1, 0)]
      [] function_id = Word32(50176, 3) -> [continue |-> TRUE, x0 |-> Neg64(4)]
      [] function_id = Word32(33792, 8) -> [continue |-> FALSE, x0 |-> function_id]
      [] function_id = Word32(33792, 9) -> [continue |-> FALSE, x0 |-> function_id]
      [] OTHER -> [continue |-> TRUE, x0 |-> U64(0)]

\* handle_hvc: X0 selects the function; the result is either "leave run()"
\* or the value put into X0
handle_hvc_ret(function_id, queried_func) ==
    CASE function_id = Word32(33792, 0) -> [continue |-> TRUE, x0 |-> Word32(1, 0)]
      [] function_id = Word32(50176, 1) -> [continue |-> TRUE, x0 |-> U64(0)]
      [] function_id = Word32(33792, 2) -> [continue |-> FALSE, x0 |-> function_id]
      [] function_id = Word32(50176, 3) -> [continue |-> TRUE, x0 |-> Neg64(4)]
      [] function_id = Word32(50176, 4) -> [continue |-> TRUE, x0 |-> U64(0)]
      [] function_id = Word32(33792, 8) -> [continue |-> FALSE, x0 |-> function_id]
      [] function_id = Word32(33792, 9) -> [continue |-> FALSE, x0 |-> function_id]
      [] function_id = Word32(33792, 10) ->
            [continue |-> TRUE,
             x0 |-> IF queried_func \in {Word32(33792, 0), Word32(50176, 1),
                                         Word32(33792, 2), Word32(50176, 3),
                                         Word32(50176, 4), Word32(33792, 8),
                                         Word32(33792, 9)}
                    THEN U64(0)
                    ELSE Neg64(1)]
      [] OTHER -> [continue |-> TRUE, x0 |-> Neg64(1)]

\* CPU_SUSPEND (0xC400_0001) sleeps before it returns, in microseconds
SUSPEND_SLEEP_US == 100

handle_hvc_slept(function_id) ==
    IF function_id = Word32(50176, 1) THEN SUSPEND_SLEEP_US ELSE 0

(***************************************************************************)
(* Guest behaviour inside vcpu.run(): inputs of the exit loop              *)
(***************************************************************************)
\* ISS of a Data Abort: ISV bit 24, SAS bits 23:22, SRT bits 20:16, WnR bit 6
DataAbortIss(isv, sas, srt, wnr) ==
    isv * (2 ^ 24) + sas * (2 ^ 22) + srt * (2 ^ 16) + wnr * (2 ^ 6)

\* guest loads and stores that fault to the host: [wnr, srt, addr, value]
GuestAccesses ==
    {[wnr |-> 1, srt |-> 0, addr |-> GIC_DIST_BASE + GICD_CTLR, value |-> 1],
     [wnr |-> 1, srt |-> 0, addr |-> GIC_DIST_BASE + GIC_DIST_SIZE + GICC_CTLR, value |-> 1],
     [wnr |-> 1, srt |-> 0, addr |-> GIC_DIST_BASE + GIC_DIST_SIZE + GICC_EOIR,
      value |-> VIRT_TIMER_IRQ],
     [wnr |-> 0, srt |-> 0, addr |-> GIC_DIST_BASE + GIC_DIST_SIZE + GICC_IAR, value |-> 0],
     [wnr |-> 0, srt |-> 31, addr |-> GIC_DIST_BASE + GIC_DIST_SIZE + GICC_HPPIR, value |-> 0]}

\* loads and stores of a guest interrupt handler: both enables, ISENABLER,
\* ISPENDR and ICPENDR for IRQ 32, ICPENDR for IRQ 27, IAR, EOIR
GicHandlerAccesses ==
    {[wnr |-> 1, srt |-> 0, addr |-> GIC_DIST_BASE + GICD_CTLR, value |-> 1],
     [wnr |-> 1, srt |-> 0, addr |-> GIC_DIST_BASE + GIC_DIST_SIZE + GICC_CTLR, value |-> 1],
     [wnr |-> 1, srt |-> 0, addr |-> GIC_DIST_BASE + GICD_ISENABLER + 4, value |-> 1],
     [wnr |-> 1, srt |-> 0, addr |-> GIC_DIST_BASE + GICD_ISPENDR + 4, value |-> 1],
     [wnr |-> 1, srt |-> 0, addr |-> GIC_DIST_BASE + GICD_ICPENDR + 4, value |-> 1],
     [wnr |-> 1, srt |-> 0, addr |-> GIC_DIST_BASE + GICD_ICPENDR,
      value |-> 2 ^ VIRT_TIMER_IRQ],
     [wnr |-> 0, srt |-> 0, addr |-> GIC_DIST_BASE + GIC_DIST_SIZE + GICC_IAR, value |-> 0],
     [wnr |-> 1, srt |-> 0, addr |-> GIC_DIST_BASE + GIC_DIST_SIZE + GICC_EOIR, value |-> 32]}

\* ISS of a trapped MSR/MRS: Op0 21:20, Op2 19:17, Op1 16:14, CRn 13:10,
\* Rt 9:5, CRm 4:1, direction bit 0
SysregIss(op0, op1, crn, crm, op2, rt, direction) ==
    op0 * (2 ^ 20) + op2 * (2 ^ 17) + op1 * (2 ^ 14) + crn * (2 ^ 10)
        + rt * (2 ^ 5) + crm * 2 + direction

\* (op0, op1, crn, crm, op2) of the Generic Timer registers
TimerEncodings ==
    {<<3, 3, 14, 0, 0>>, <<3, 3, 14, 0, 1>>, <<3, 3, 14, 0, 2>>,
     <<3, 3, 14, 2, 0>>, <<3, 3, 14, 2, 1>>, <<3, 3, 14, 2, 2>>,
     <<3, 3, 14, 3, 0>>, <<3, 3, 14, 3, 1>>, <<3, 3, 14, 3, 2>>,
     <<3, 4, 14, 0, 3>>}

\* other system registers the guest may touch: MIDR_EL1, TPIDR_EL0-like
\* (CRn 13), and neighbours of the timer encodings
OtherEncodings ==
    {<<3, 0, 0, 0, 0>>, <<3, 3, 13, 2, 1>>, <<3, 3, 14, 0, 3>>, <<2, 3, 14, 2, 2>>}

\* values the guest holds in Xt when it executes MSR
SysregValues == {1, 6}

\* trapped system register accesses: reads, and writes of each value
SysregAccesses ==
    {[enc |-> e, rt |-> r, direction |-> 0, value |-> 0] :
        e \in TimerEncodings \cup OtherEncodings, r \in {1, 31}}
    \cup {[enc |-> e, rt |-> r, direction |-> 1, value |-> v] :
            e \in TimerEncodings \cup OtherEncodings, r \in {1, 31}, v \in SysregValues}

\* accesses to CNTP_CVAL_EL0 and CNTV_CVAL_EL0
CvalAccesses ==
    {a \in SysregAccesses : a.enc \in {<<3, 3, 14, 2, 2>>, <<3, 3, 14, 3, 2>>}}

\* reads of the counters and of the frequency only
CounterReads ==
    {a \in SysregAccesses :
        a.direction = 0 /\ a.enc \in {<<3, 3, 14, 0, 0>>, <<3, 3, 14, 0, 2>>}}

\* PSCI calls the guest makes: <<X0, X1>>
HvcCalls ==
    {<<f, U64(0)>> :
        f \in {Word32(33792, 0), Word32(50176, 1), Word32(33792, 2), Word32(50176, 3),
               Word32(50176, 4), Word32(33792, 8), Word32(33792, 9),
               U64(0), Word32(33792, 1), <<0, 1, 33792, 0>>, Neg64(1)}}
    \cup {<<Word32(33792, 10), q>> :
            q \in {Word32(33792, 0), Word32(50176, 1), Word32(33792, 2), Word32(50176, 3),
                   Word32(50176, 4), Word32(33792, 8), Word32(33792, 9),
                   Word32(33792, 10), U64(0), <<0, 1, 33792, 0>>}}

\* an address no device is registered at (the PL011 window)
UnmappedAddr == 150994944

\* loads and stores of every access size, with and without a valid syndrome
\* (ISV = 0 leaves SAS and SRT zero)
MmioAccesses ==
    {[isv |-> 1, sas |-> z, srt |-> r, wnr |-> w, addr |-> a, value |-> 1] :
        z \in 0..3, r \in {1, 17, 31}, w \in {0, 1},
        a \in {GIC_DIST_BASE + GICD_CTLR, UnmappedAddr}}
    \cup {[isv |-> 0, sas |-> 0, srt |-> 0, wnr |-> w, addr |-> a, value |-> 1] :
            w \in {0, 1}, a \in {GIC_DIST_BASE + GICD_CTLR, UnmappedAddr}}

\* address the guest image is loaded at and run() starts from by default
GuestAddr == 65536

\* addresses of the guest instructions that trap
TrapPcs == {GuestAddr}

\* host sleep of handle_wfi_wfe, in microseconds
WFI_SLEEP_US == 100

\* values the guest writes to CNTV_CTL_EL0 / CNTV_CVAL_EL0 (not trapped)
GuestCtlValues == {1, 2, 3}

GuestCvalValues == {1, I64_MAX}

\* exception classes of the exits without further operands:
\* WFI/WFE (0x01), BRK (0x3C), an unhandled class (0x20)
PlainExceptionClasses == {1, 60, 32}

\* the guest-visible virtual counter: the host counter rebased by vtimer_offset
GuestCounter == now % CounterMod

\* the host's CNTVCT_EL0 as read by the run thread (mrs cntvct_el0)
HostCounter == (vtimer_offset + now) % CounterMod

HwTimerFired == hw_ctl % 2 /= 0 /\ (hw_ctl \div 2) % 2 = 0 /\ GuestCounter >= hw_cval

(***************************************************************************)
(* Initial state                                                           *)
(***************************************************************************)
Init ==
    /\ InitGicState
    /\ obs = OtherObs
    /\ pc = "init"
    /\ irq_line = FALSE
    /\ fiq_line = FALSE
    /\ hw_ctl = 2
    /\ hw_cval = I64_MAX
    /\ virt_timer = [ctl |-> 0, cval |-> 0]
    /\ phys_timer = [ctl |-> 0, cval |-> 0]
    /\ now = 0
    /\ post_run = [ctl |-> 0, cval |-> 0, fire |-> FALSE]
    /\ exit_info = NoExit
    /\ regs = [i \in 0..30 |-> U64(0)]
    /\ guest_pc = 0
    /\ result = NoResult
    /\ trace = NoTrace
    /\ guest_wrote_cval = NotWritten
    /\ handlers = <<>>
    /\ stdout = <<>>
    /\ dev_obs = NoCall
    /\ mem = [a \in Tracked |-> 0]
    /\ cpsr = 0
    /\ vtimer_offset \in 0..MaxBootTicks
    /\ virt_offset = 0

(***************************************************************************)
(* Before run(): the embedding program prepares the GIC                    *)
(***************************************************************************)
\* InterruptController::enable: GICD_CTLR <- 1, GICC_CTLR <- 1
FacadeEnable ==
    /\ UNCHANGED <<guest_wrote_cval, devVars>>
    /\ pc = "init"
    /\ dist_enabled' = (1 % 2 /= 0)
    /\ cpuif_enabled' = (1 % 2 /= 0)
    /\ UNCHANGED <<irq_enabled, irq_pending, irq_active, irq_priority,
                   priority_mask, running_irq, running_priority>>
    /\ UNCHANGED <<obs, irq_line, fiq_line, hw_ctl, hw_cval, virt_timer, phys_timer,
                   now, post_run, exit_info, regs, vtimer_offset, virt_offset,
                   guest_pc, result, trace>>
    /\ pc' = "init"

\* Hypervisor::run up to the head of the loop
RunStart ==
    /\ UNCHANGED <<guest_wrote_cval, handlers, stdout, dev_obs, mem>>
    /\ pc = "init"
    /\ pc' = "poll"
    /\ guest_pc' = GuestAddr
    /\ cpsr' = DEFAULT_CPSR
    /\ UNCHANGED <<gicVars, obs, irq_line, fiq_line, hw_ctl, hw_cval, virt_timer,
                   phys_timer, now, post_run, exit_info, regs, vtimer_offset, virt_offset,
                   result, trace>>

(***************************************************************************)
(* One iteration of the exit loop, step by step                            *)
(***************************************************************************)
\* lib.rs 251-253: poll the software timers into the GIC
PollTimerIrqs ==
    /\ UNCHANGED <<guest_wrote_cval, devVars>>
    /\ pc = "poll"
    /\ poll_timer_irqs
    /\ pc' = "set_irq"
    /\ trace' = NoTrace
    /\ UNCHANGED <<obs, irq_line, fiq_line, hw_ctl, hw_cval, virt_timer, phys_timer,
                   now, post_run, exit_info, regs, vtimer_offset, virt_offset,
                   guest_pc, result>>

SetIrqLine_AssertOnly ==
    /\ UNCHANGED <<guest_wrote_cval, devVars>>
    /\ pc = "set_irq"
    /\ fiq_line' = FALSE
    /\ irq_line' = IF has_pending_irq THEN TRUE ELSE irq_line
    /\ pc' = "shadow"
    /\ UNCHANGED <<gicVars, obs, hw_ctl, hw_cval, virt_timer, phys_timer,
                   now, post_run, exit_info, regs, vtimer_offset, virt_offset,
                   guest_pc, result, trace>>

\* lib.rs 266-273: clear FIQ, then drive the IRQ line from the GIC
SetIrqLine ==
    /\ UNCHANGED <<guest_wrote_cval, devVars>>
    /\ pc = "set_irq"
    /\ fiq_line' = FALSE
    /\ irq_line' = IF has_pending_irq THEN TRUE ELSE FALSE
    /\ pc' = "shadow"
    /\ UNCHANGED <<gicVars, obs, hw_ctl, hw_cval, virt_timer, phys_timer,
                   now, post_run, exit_info, regs, vtimer_offset, virt_offset,
                   guest_pc, result, trace>>

\* lib.rs 291-305: copy the guest's CNTV_CTL/CNTV_CVAL into the software timer
ShadowGuestTimer ==
    /\ UNCHANGED <<guest_wrote_cval, devVars>>
    /\ pc = "shadow"
    /\ LET guest_ctl == hw_ctl
           guest_cval == hw_cval
       IN virt_timer' = write_cval(write_ctl(virt_timer, guest_ctl), guest_cval)
    /\ pc' = "disarm"
    /\ UNCHANGED <<gicVars, obs, irq_line, fiq_line, hw_ctl, hw_cval, phys_timer,
                   now, post_run, exit_info, regs, vtimer_offset, virt_offset,
                   guest_pc, result, trace>>

DisarmHwTimer_CtlOnly ==
    /\ UNCHANGED <<guest_wrote_cval, devVars>>
    /\ pc = "disarm"
    /\ hw_ctl' = 2
    /\ fiq_line' = FALSE
    /\ pc' = "run"
    /\ UNCHANGED <<gicVars, obs, irq_line, hw_cval, virt_timer, phys_timer,
                   now, post_run, exit_info, regs, vtimer_offset, virt_offset,
                   guest_pc, result, trace>>

\* lib.rs 326-332: CTL <- 0x2, CVAL <- i64::MAX, clear FIQ
DisarmHwTimer ==
    /\ UNCHANGED <<guest_wrote_cval, devVars>>
    /\ pc = "disarm"
    /\ hw_ctl' = 2
    /\ hw_cval' = I64_MAX
    /\ fiq_line' = FALSE
    /\ pc' = "run"
    /\ UNCHANGED <<gicVars, obs, irq_line, virt_timer, phys_timer,
                   now, post_run, exit_info, regs, vtimer_offset, virt_offset,
                   guest_pc, result, trace>>

\* lib.rs 334: vcpu.run() is entered
VcpuEnter ==
    /\ UNCHANGED <<guest_wrote_cval, handlers, stdout, memVars>>
    \* the record of a boot_linux call is closed by the first guest entry
    /\ dev_obs' = IF dev_obs.op = "boot_linux"
                  THEN [dev_obs EXCEPT !.op = "guest_entered"] ELSE dev_obs
    /\ pc = "run"
    /\ pc' = "guest"
    /\ UNCHANGED <<gicVars, obs, irq_line, fiq_line, hw_ctl, hw_cval, virt_timer,
                   phys_timer, now, post_run, exit_info, regs, vtimer_offset, virt_offset,
                   guest_pc, result, trace>>

(***************************************************************************)
(* Inside vcpu.run(): the guest executes, time passes, the host primitive  *)
(* reports an exit                                                         *)
(***************************************************************************)
Tick ==
    /\ UNCHANGED <<guest_wrote_cval, devVars>>
    /\ pc /= "done"
    /\ now < MaxTime
    /\ now' = now + 1
    /\ UNCHANGED <<gicVars, obs, pc, irq_line, fiq_line, hw_ctl, hw_cval, virt_timer,
                   phys_timer, post_run, exit_info, regs, vtimer_offset, virt_offset,
                   guest_pc, result, trace>>

\* the guest's MSR to CNTV_CTL_EL0 / CNTV_CVAL_EL0 reach the hardware registers
GuestWriteTimer ==
    /\ UNCHANGED <<guest_wrote_cval, devVars>>
    /\ pc = "guest"
    /\ \E c \in GuestCtlValues, v \in GuestCvalValues :
        /\ hw_ctl' = c
        /\ hw_cval' = v
    /\ UNCHANGED <<gicVars, obs, pc, irq_line, fiq_line, virt_timer, phys_timer,
                   now, post_run, exit_info, regs, vtimer_offset, virt_offset,
                   guest_pc, result, trace>>

\* the guest program arms its virtual timer once: CNTV_CVAL_EL0 <- c, then
\* CNTV_CTL_EL0 <- ENABLE=1, IMASK=0, and never writes the timer again
GuestArmTimer ==
    /\ UNCHANGED devVars
    /\ pc = "guest"
    /\ guest_wrote_cval = NotWritten
    /\ \E c \in GuestCvalValues :
        /\ hw_ctl' = 1
        /\ hw_cval' = c
        /\ guest_wrote_cval' = [guest_wrote_cval EXCEPT !.virt = c]
    /\ UNCHANGED <<gicVars, obs, pc, irq_line, fiq_line, virt_timer, phys_timer,
                   now, post_run, exit_info, regs, vtimer_offset, virt_offset,
                   guest_pc, result, trace>>

\* an armed, unmasked hardware timer that fires raises the FIQ line
HostTimerFiq ==
    /\ UNCHANGED <<guest_wrote_cval, devVars>>
    /\ pc \notin {"init", "done"}
    /\ HwTimerFired
    /\ fiq_line' = TRUE
    /\ UNCHANGED <<gicVars, obs, pc, irq_line, hw_ctl, hw_cval, virt_timer, phys_timer,
                   now, post_run, exit_info, regs, vtimer_offset, virt_offset,
                   guest_pc, result, trace>>

VcpuExitException ==
    /\ UNCHANGED <<guest_wrote_cval, devVars>>
    /\ pc = "guest"
    /\ \E ec \in PlainExceptionClasses :
        exit_info' = [reason |-> "EXCEPTION", ec |-> ec, iss |-> 0, physical_address |-> 0]
    /\ pc' = "capture"
    /\ guest_pc' \in TrapPcs
    /\ UNCHANGED <<gicVars, obs, irq_line, fiq_line, hw_ctl, hw_cval, virt_timer,
                   phys_timer, now, post_run, regs, vtimer_offset, virt_offset,
                   result, trace>>

\* a load or store to an unmapped IPA; a store's data is in X[srt]
VcpuExitDataAbortOf(accesses) ==
    /\ UNCHANGED <<guest_wrote_cval, devVars>>
    /\ pc = "guest"
    /\ \E a \in accesses :
        /\ exit_info' = [reason |-> "EXCEPTION", ec |-> 36,
                         iss |-> DataAbortIss(1, 2, a.srt, a.wnr),
                         physical_address |-> a.addr]
        /\ regs' = IF a.wnr = 1 THEN set_register_by_index(a.srt, U64(a.value)) ELSE regs
    /\ pc' = "capture"
    /\ guest_pc' \in TrapPcs
    /\ UNCHANGED <<gicVars, obs, irq_line, fiq_line, hw_ctl, hw_cval, virt_timer,
                   phys_timer, now, post_run, vtimer_offset, virt_offset,
                   result, trace>>

VcpuExitDataAbort == VcpuExitDataAbortOf(GuestAccesses)

\* a guest interrupt handler at work on the GIC: enable, acknowledge, clear,
\* complete
VcpuExitGicAccess == VcpuExitDataAbortOf(GicHandlerAccesses)

\* HVC: the preferred return address is the instruction after the HVC
VcpuExitHvc ==
    /\ UNCHANGED <<guest_wrote_cval, devVars>>
    /\ pc = "guest"
    /\ \E call \in HvcCalls :
        regs' = [regs EXCEPT ![0] = call[1], ![1] = call[2]]
    /\ exit_info' = [reason |-> "EXCEPTION", ec |-> 22, iss |-> 0, physical_address |-> 0]
    /\ pc' = "capture"
    /\ guest_pc' \in {p + 4 : p \in TrapPcs}
    /\ UNCHANGED <<gicVars, obs, irq_line, fiq_line, hw_ctl, hw_cval, virt_timer,
                   phys_timer, now, post_run, vtimer_offset, virt_offset,
                   result, trace>>

\* a trapped MSR/MRS out of the set accesses; an MSR's data is in X[rt]
VcpuExitSysregOf(accesses, history) ==
    /\ UNCHANGED devVars
    /\ pc = "guest"
    /\ \E a \in accesses :
        /\ guest_wrote_cval' =
             IF history /\ a.direction = 1
             THEN LET value == IF a.rt < 31 THEN a.value ELSE 0 IN
                  CASE a.enc = <<3, 3, 14, 2, 2>> -> [guest_wrote_cval EXCEPT !.phys = value]
                    [] a.enc = <<3, 3, 14, 3, 2>> -> [guest_wrote_cval EXCEPT !.virt = value]
                    [] OTHER -> guest_wrote_cval
             ELSE guest_wrote_cval
        /\ exit_info' = [reason |-> "EXCEPTION", ec |-> 24,
                         iss |-> SysregIss(a.enc[1], a.enc[2], a.enc[3], a.enc[4],
                                           a.enc[5], a.rt, a.direction),
                         physical_address |-> 0]
        /\ regs' = IF a.direction = 1
                   THEN set_register_by_index(a.rt, U64(a.value))
                   ELSE regs
    /\ pc' = "capture"
    /\ guest_pc' \in TrapPcs
    /\ UNCHANGED <<gicVars, obs, irq_line, fiq_line, hw_ctl, hw_cval, virt_timer,
                   phys_timer, now, post_run, vtimer_offset, virt_offset,
                   result, trace>>

VcpuExitSysreg == VcpuExitSysregOf(SysregAccesses, FALSE)

VcpuExitCounterRead == VcpuExitSysregOf(CounterReads, FALSE)

\* MSR/MRS of the two compare registers, with the written values remembered
VcpuExitCvalAccess == VcpuExitSysregOf(CvalAccesses, TRUE)

\* a load or store of any size to an unmapped IPA
VcpuExitMmioAccess ==
    /\ UNCHANGED <<guest_wrote_cval, devVars>>
    /\ pc = "guest"
    /\ \E a \in MmioAccesses :
        /\ exit_info' = [reason |-> "EXCEPTION", ec |-> 36,
                         iss |-> DataAbortIss(a.isv, a.sas, a.srt, a.wnr),
                         physical_address |-> a.addr]
        /\ regs' = IF a.wnr = 1 THEN set_register_by_index(a.srt, U64(a.value)) ELSE regs
    /\ pc' = "capture"
    /\ guest_pc' \in TrapPcs
    /\ UNCHANGED <<gicVars, obs, irq_line, fiq_line, hw_ctl, hw_cval, virt_timer,
                   phys_timer, now, post_run, vtimer_offset, virt_offset,
                   result, trace>>

VcpuExitVtimer ==
    /\ UNCHANGED <<guest_wrote_cval, devVars>>
    /\ pc = "guest"
    /\ HwTimerFired
    /\ exit_info' = [reason |-> "VTIMER_ACTIVATED", ec |-> 0, iss |-> 0,
                     physical_address |-> 0]
    /\ pc' = "capture"
    /\ guest_pc' \in TrapPcs
    /\ UNCHANGED <<gicVars, obs, irq_line, fiq_line, hw_ctl, hw_cval, virt_timer,
                   phys_timer, now, post_run, regs, vtimer_offset, virt_offset,
                   result, trace>>

VcpuExitOther ==
    /\ UNCHANGED <<guest_wrote_cval, devVars>>
    /\ pc = "guest"
    /\ exit_info' = [reason |-> "CANCELED", ec |-> 0, iss |-> 0, physical_address |-> 0]
    /\ pc' = "capture"
    /\ guest_pc' \in TrapPcs
    /\ UNCHANGED <<gicVars, obs, irq_line, fiq_line, hw_ctl, hw_cval, virt_timer,
                   phys_timer, now, post_run, regs, vtimer_offset, virt_offset,
                   result, trace>>

(***************************************************************************)
(* After vcpu.run()                                                        *)
(***************************************************************************)
\* lib.rs 337-344: read back the guest's CNTV_CTL / CNTV_CVAL
CapturePostRun ==
    /\ UNCHANGED <<guest_wrote_cval, devVars>>
    /\ pc = "capture"
    /\ post_run' = [ctl |-> hw_ctl, cval |-> hw_cval, fire |-> FALSE]
    /\ pc' = "detect"
    /\ UNCHANGED <<gicVars, obs, irq_line, fiq_line, hw_ctl, hw_cval, virt_timer,
                   phys_timer, now, exit_info, regs, vtimer_offset, virt_offset,
                   guest_pc, result, trace>>

\* lib.rs 347-360: timer_should_fire
DetectTimerFire ==
    /\ UNCHANGED <<guest_wrote_cval, devVars>>
    /\ pc = "detect"
    /\ LET timer_enabled == post_run.ctl % 2 /= 0
           timer_imask == (post_run.ctl \div 2) % 2 /= 0
           hw_counter == HostCounter
       IN post_run' = [post_run EXCEPT
                         !.fire = timer_enabled /\ ~timer_imask /\ hw_counter >= post_run.cval]
    /\ pc' = "inject"
    /\ UNCHANGED <<gicVars, obs, irq_line, fiq_line, hw_ctl, hw_cval, virt_timer,
                   phys_timer, now, exit_info, regs, vtimer_offset, virt_offset,
                   guest_pc, result, trace>>

\* lib.rs 362-384: set IRQ 27 pending when the timer fired, then raise the IRQ
\* line when the GIC has a deliverable interrupt
InjectIrq ==
    /\ UNCHANGED <<guest_wrote_cval, devVars>>
    /\ pc = "inject"
    /\ IF post_run.fire THEN set_irq_pending(VIRT_TIMER_IRQ) ELSE UNCHANGED gicVars
    /\ irq_line' = IF has_pending_irq' THEN TRUE ELSE irq_line
    /\ pc' = "decode"
    /\ UNCHANGED <<obs, fiq_line, hw_ctl, hw_cval, virt_timer, phys_timer,
                   now, post_run, exit_info, regs, vtimer_offset, virt_offset,
                   guest_pc, result, trace>>

(***************************************************************************)
(* Decoding the exit (lib.rs 470-584) and the handlers                     *)
(***************************************************************************)
NoPostRun == [ctl |-> 0, cval |-> 0, fire |-> FALSE]

HandleWfi_ReexecuteWhenIdle ==
    /\ UNCHANGED <<guest_wrote_cval, devVars>>
    /\ pc = "decode"
    /\ exit_info.reason = "EXCEPTION" /\ exit_info.ec = 1
    /\ poll_timer_irqs
    /\ pc' = "poll"
    /\ exit_info' = NoExit
    /\ post_run' = NoPostRun
    /\ guest_pc' = IF has_pending_irq' THEN guest_pc + 4 ELSE guest_pc
    /\ trace' = [NoTrace EXCEPT !.slept = IF has_pending_irq' THEN 0 ELSE WFI_SLEEP_US]
    /\ UNCHANGED <<obs, irq_line, fiq_line, hw_ctl, hw_cval, virt_timer, phys_timer,
                   now, regs, vtimer_offset, virt_offset,
                   result>>

\* EC 0x01: handle_wfi_wfe polls the timers; the loop continues
HandleWfi ==
    /\ UNCHANGED <<guest_wrote_cval, devVars>>
    /\ pc = "decode"
    /\ exit_info.reason = "EXCEPTION" /\ exit_info.ec = 1
    /\ poll_timer_irqs
    /\ pc' = "poll"
    /\ exit_info' = NoExit
    /\ post_run' = NoPostRun
    /\ guest_pc' = guest_pc + 4
    /\ trace' = [NoTrace EXCEPT !.slept = IF has_pending_irq' THEN 0 ELSE WFI_SLEEP_US]
    /\ UNCHANGED <<obs, irq_line, fiq_line, hw_ctl, hw_cval, virt_timer, phys_timer,
                   now, regs, vtimer_offset, virt_offset,
                   result>>

\* EC 0x24: handle_data_abort
HandleDataAbort ==
    /\ UNCHANGED <<guest_wrote_cval, devVars>>
    /\ pc = "decode"
    /\ exit_info.reason = "EXCEPTION" /\ exit_info.ec = 36
    /\ LET iss == exit_info.iss % (2 ^ 25)
           isv == (iss \div (2 ^ 24)) % 2
           is_write == (iss \div (2 ^ 6)) % 2 /= 0
           sas == (iss \div (2 ^ 22)) % 4
           size == 2 ^ sas
           srt == IF isv /= 0 THEN (iss \div (2 ^ 16)) % 32 ELSE 0
           fault_addr == exit_info.physical_address
       IN IF is_write
          THEN LET value == Lo31(get_register_by_index(srt)) IN
               /\ handle_write(fault_addr, value)
               /\ trace' = [NoTrace EXCEPT !.mmio = "write", !.addr = fault_addr,
                                            !.value = value, !.size = size]
               /\ UNCHANGED regs
          ELSE LET value == handle_read_ret(fault_addr) IN
               /\ handle_read(fault_addr)
               /\ trace' = [NoTrace EXCEPT !.mmio = "read", !.addr = fault_addr,
                                            !.value = value, !.size = size]
               /\ regs' = set_register_by_index(srt, U64(value))
    /\ guest_pc' = guest_pc + 4
    /\ pc' = "poll"
    /\ exit_info' = NoExit
    /\ post_run' = NoPostRun
    /\ UNCHANGED <<irq_line, fiq_line, hw_ctl, hw_cval, virt_timer, phys_timer,
                   now, vtimer_offset, virt_offset, result>>

\* a register value at the counter width of the model
TimerWord(u) == Lo31(u) % CounterMod

\* EC 0x16: handle_hvc answered the call; X0 holds the result, PC is not moved
HandleHvc ==
    /\ UNCHANGED <<guest_wrote_cval, devVars>>
    /\ pc = "decode"
    /\ exit_info.reason = "EXCEPTION" /\ exit_info.ec = 22
    /\ LET function_id == regs[0]
           r == handle_hvc_ret(function_id, regs[1])
       IN /\ r.continue
          /\ regs' = [regs EXCEPT ![0] = r.x0]
          /\ trace' = [NoTrace EXCEPT !.slept = handle_hvc_slept(function_id)]
    /\ pc' = "poll"
    /\ exit_info' = NoExit
    /\ post_run' = NoPostRun
    /\ UNCHANGED <<gicVars, obs, irq_line, fiq_line, hw_ctl, hw_cval, virt_timer,
                   phys_timer, now, vtimer_offset, virt_offset, guest_pc, result>>

\* EC 0x16: CPU_OFF, SYSTEM_OFF, SYSTEM_RESET make handle_hvc return false
ReturnOnHvc ==
    /\ UNCHANGED <<guest_wrote_cval, devVars>>
    /\ pc = "decode"
    /\ exit_info.reason = "EXCEPTION" /\ exit_info.ec = 22
    /\ ~handle_hvc_ret(regs[0], regs[1]).continue
    /\ pc' = "done"
    /\ result' = [returned |-> TRUE, pc |-> guest_pc, registers |-> regs,
                   exit_reason |-> exit_info.reason,
                   exception_syndrome |-> [some |-> TRUE, ec |-> exit_info.ec,
                                           iss |-> exit_info.iss]]
    /\ UNCHANGED <<gicVars, obs, irq_line, fiq_line, hw_ctl, hw_cval, virt_timer,
                   phys_timer, now, post_run, exit_info, regs, vtimer_offset, virt_offset,
                   guest_pc, trace>>

\* EC 0x18: handle_sysreg_access
HandleSysreg ==
    /\ UNCHANGED <<guest_wrote_cval, devVars>>
    /\ pc = "decode"
    /\ exit_info.reason = "EXCEPTION" /\ exit_info.ec = 24
    /\ LET iss == exit_info.iss % (2 ^ 25)
           direction == iss % 2
           crm == (iss \div 2) % 16
           rt == (iss \div (2 ^ 5)) % 32
           crn == (iss \div (2 ^ 10)) % 16
           op1 == (iss \div (2 ^ 14)) % 8
           op2 == (iss \div (2 ^ 17)) % 8
           op0 == (iss \div (2 ^ 20)) % 4
           timer_reg == from_encoding(op0, op1, crn, crm, op2)
       IN IF timer_reg /= "NONE"
          THEN IF direction = 0
               THEN LET value == read_sysreg(timer_reg) IN
                    /\ regs' = IF rt < 31 THEN set_register_by_index(rt, U64(value)) ELSE regs
                    /\ UNCHANGED <<phys_timer, virt_timer, virt_offset>>
               ELSE LET value == IF rt < 31 THEN get_register_by_index(rt) ELSE U64(0) IN
                    /\ write_sysreg(timer_reg, TimerWord(value))
                    /\ UNCHANGED regs
          ELSE /\ regs' = IF direction = 0 /\ rt < 31
                          THEN set_register_by_index(rt, U64(0))
                          ELSE regs
               /\ UNCHANGED <<phys_timer, virt_timer, virt_offset>>
    /\ guest_pc' = guest_pc + 4
    /\ pc' = "poll"
    /\ exit_info' = NoExit
    /\ post_run' = NoPostRun
    /\ UNCHANGED <<gicVars, obs, irq_line, fiq_line, hw_ctl, hw_cval,
                   now, vtimer_offset, result, trace>>

\* EC 0x3C (BRK) and every exception class without a handler: run() returns
ReturnOnException ==
    /\ UNCHANGED <<guest_wrote_cval, devVars>>
    /\ pc = "decode"
    /\ exit_info.reason = "EXCEPTION"
    /\ exit_info.ec \notin {1, 22, 24, 36}
    /\ pc' = "done"
    /\ result' = [returned |-> TRUE, pc |-> guest_pc, registers |-> regs,
                   exit_reason |-> exit_info.reason,
                   exception_syndrome |-> [some |-> TRUE, ec |-> exit_info.ec,
                                           iss |-> exit_info.iss]]
    /\ UNCHANGED <<gicVars, obs, irq_line, fiq_line, hw_ctl, hw_cval, virt_timer,
                   phys_timer, now, post_run, exit_info, regs, vtimer_offset, virt_offset,
                   guest_pc, trace>>

HandleVtimerActivated_AdvancesPc ==
    /\ UNCHANGED <<guest_wrote_cval, devVars>>
    /\ pc = "decode"
    /\ exit_info.reason = "VTIMER_ACTIVATED"
    /\ irq_pending' = irq_pending
                        \cup (IF phys_timer_pending THEN {PHYS_TIMER_IRQ} ELSE {})
                        \cup (IF virt_timer_pending THEN {VIRT_TIMER_IRQ} ELSE {})
                        \cup {VIRT_TIMER_IRQ}
    /\ UNCHANGED <<dist_enabled, irq_enabled, irq_active, irq_priority,
                   cpuif_enabled, priority_mask, running_irq, running_priority>>
    /\ irq_line' = IF has_pending_interrupt' THEN TRUE ELSE irq_line
    /\ pc' = "poll"
    /\ exit_info' = NoExit
    /\ post_run' = NoPostRun
    /\ guest_pc' = guest_pc + 4
    /\ UNCHANGED <<obs, fiq_line, hw_ctl, hw_cval, virt_timer, phys_timer,
                   now, regs, vtimer_offset, virt_offset,
                   result, trace>>

\* VTIMER_ACTIVATED: poll, set IRQ 27 pending, raise the IRQ line, continue
HandleVtimerActivated ==
    /\ UNCHANGED <<guest_wrote_cval, devVars>>
    /\ pc = "decode"
    /\ exit_info.reason = "VTIMER_ACTIVATED"
    /\ irq_pending' = irq_pending
                        \cup (IF phys_timer_pending THEN {PHYS_TIMER_IRQ} ELSE {})
                        \cup (IF virt_timer_pending THEN {VIRT_TIMER_IRQ} ELSE {})
                        \cup {VIRT_TIMER_IRQ}
    /\ UNCHANGED <<dist_enabled, irq_enabled, irq_active, irq_priority,
                   cpuif_enabled, priority_mask, running_irq, running_priority>>
    /\ irq_line' = IF has_pending_interrupt' THEN TRUE ELSE irq_line
    /\ pc' = "poll"
    /\ exit_info' = NoExit
    /\ post_run' = NoPostRun
    /\ UNCHANGED <<obs, fiq_line, hw_ctl, hw_cval, virt_timer, phys_timer,
                   now, regs, vtimer_offset, virt_offset,
                   guest_pc, result, trace>>

\* any other exit reason: run() returns
ReturnOnOtherExit ==
    /\ UNCHANGED <<guest_wrote_cval, devVars>>
    /\ pc = "decode"
    /\ exit_info.reason \notin {"EXCEPTION", "VTIMER_ACTIVATED"}
    /\ pc' = "done"
    /\ result' = [returned |-> TRUE, pc |-> guest_pc, registers |-> regs,
                   exit_reason |-> exit_info.reason,
                   exception_syndrome |-> [some |-> FALSE, ec |-> 0, iss |-> 0]]
    /\ UNCHANGED <<gicVars, obs, irq_line, fiq_line, hw_ctl, hw_cval, virt_timer,
                   phys_timer, now, post_run, exit_info, regs, vtimer_offset, virt_offset,
                   guest_pc, trace>>

(***************************************************************************)
(* Specifications                                                          *)
(***************************************************************************)
\* the exit loop driven by the guest
Next ==
    \/ FacadeEnable
    \/ RunStart
    \/ PollTimerIrqs
    \/ SetIrqLine
    \/ ShadowGuestTimer
    \/ DisarmHwTimer
    \/ VcpuEnter
    \/ Tick
    \/ GuestWriteTimer
    \/ HostTimerFiq
    \/ VcpuExitException
    \/ VcpuExitDataAbort
    \/ VcpuExitVtimer
    \/ VcpuExitOther
    \/ CapturePostRun
    \/ DetectTimerFire
    \/ InjectIrq
    \/ HandleWfi
    \/ HandleDataAbort
    \/ ReturnOnException
    \/ HandleVtimerActivated
    \/ ReturnOnOtherExit

Spec == Init /\ [][Next]_vars

\* the GIC driven call by call (MMIO accesses, set/clear pending)
NextGic ==
    \/ GicSetIrqPending
    \/ GicClearIrqPending
    \/ GicMmioRead
    \/ GicMmioWrite

\* a GIC on its own: the vcpu's counter offset plays no part
InitGic == Init /\ vtimer_offset = 0

SpecGic == InitGic /\ [][NextGic]_vars

\* the exit loop under a guest that traps with every kind of exit but
\* leaves its timers alone
NextExit ==
    \/ RunStart
    \/ PollTimerIrqs
    \/ SetIrqLine
    \/ ShadowGuestTimer
    \/ DisarmHwTimer
    \/ VcpuEnter
    \/ Tick
    \/ VcpuExitException
    \/ VcpuExitHvc
    \/ VcpuExitCounterRead
    \/ VcpuExitMmioAccess
    \/ VcpuExitOther
    \/ CapturePostRun
    \/ DetectTimerFire
    \/ InjectIrq
    \/ HandleWfi
    \/ HandleHvc
    \/ ReturnOnHvc
    \/ HandleSysreg
    \/ HandleDataAbort
    \/ ReturnOnException
    \/ ReturnOnOtherExit

SpecExit == InitGic /\ [][NextExit]_vars

\* the exit loop under a guest that programs the Generic Timer through
\* trapped MSR/MRS and waits with WFI
NextSysreg ==
    \/ RunStart
    \/ PollTimerIrqs
    \/ SetIrqLine
    \/ ShadowGuestTimer
    \/ DisarmHwTimer
    \/ VcpuEnter
    \/ Tick
    \/ VcpuExitException
    \/ VcpuExitSysreg
    \/ CapturePostRun
    \/ DetectTimerFire
    \/ InjectIrq
    \/ HandleWfi
    \/ HandleSysreg
    \/ ReturnOnException

SpecSysreg == InitGic /\ [][NextSysreg]_vars

\* the exit loop under a guest that writes and reads back the compare
\* registers of both timers, one trapped access per vcpu.run()
NextCval ==
    \/ RunStart
    \/ PollTimerIrqs
    \/ SetIrqLine
    \/ ShadowGuestTimer
    \/ DisarmHwTimer
    \/ VcpuEnter
    \/ Tick
    \/ VcpuExitCvalAccess
    \/ CapturePostRun
    \/ DetectTimerFire
    \/ InjectIrq
    \/ HandleSysreg

SpecCval == InitGic /\ [][NextCval]_vars

\* the steps of the run thread between two vcpu.run() calls
LoopStep ==
    \/ RunStart
    \/ PollTimerIrqs
    \/ SetIrqLine
    \/ ShadowGuestTimer
    \/ DisarmHwTimer
    \/ VcpuEnter
    \/ CapturePostRun
    \/ DetectTimerFire
    \/ InjectIrq
    \/ HandleWfi
    \/ ReturnOnException
    \/ HandleVtimerActivated

\* vcpu.run() returns
GuestExit ==
    \/ VcpuExitException
    \/ VcpuExitVtimer

\* the exit loop under a guest that arms its timer once and then idles: the
\* run thread is sequential code, so its next step is always taken, and the
\* guest keeps leaving vcpu.run()
NextTimer ==
    \/ FacadeEnable
    \/ LoopStep
    \/ GuestExit
    \/ Tick
    \/ GuestArmTimer
    \/ HostTimerFiq

SpecTimer ==
    /\ InitGic
    /\ [][NextTimer]_vars
    /\ WF_vars(LoopStep)
    /\ WF_vars(GuestExit)

(***************************************************************************)
(* Vocabulary of the properties                                            *)
(***************************************************************************)
Irqs == 0..(MAX_IRQS - 1)

\* the deliverable predicate of the data model
Deliverable(i) ==
    /\ dist_enabled
    /\ cpuif_enabled
    /\ i \in irq_enabled
    /\ i \in irq_pending
    /\ i \notin irq_active
    /\ irq_priority[i] < priority_mask
    /\ irq_priority[i] < running_priority

SomeDeliverable == \E i \in Irqs : Deliverable(i)

\* r is at least as urgent as j: lower priority value, or equal and lower index
Beats(r, j) ==
    \/ irq_priority[r] < irq_priority[j]
    \/ irq_priority[r] = irq_priority[j] /\ r <= j

\* the IRQ arbitration is specified to choose
ArbitrationChoice ==
    CHOOSE r \in Irqs : Deliverable(r) /\ \A j \in Irqs : Deliverable(j) => Beats(r, j)

(***************************************************************************)
(* Properties of the GIC (checked under SpecGic)                           *)
(***************************************************************************)
\* C1: get_highest_pending_irq (and has_pending_interrupt) returns some IRQ
\* exactly when some IRQ in 0..255 is deliverable, every IRQ it returns is
\* deliverable, and nothing is returned while the distributor or the CPU
\* interface is disabled.
C1_HighestPendingIffDeliverable ==
    LET r == get_highest_pending_irq IN
    /\ (r /= NONE) <=> SomeDeliverable
    /\ has_pending_interrupt <=> SomeDeliverable
    /\ r /= NONE => r \in Irqs /\ Deliverable(r)
    /\ (~dist_enabled \/ ~cpuif_enabled) => r = NONE

C1_Witness ==
    /\ get_highest_pending_irq /= NONE
    /\ \E i \in irq_pending : i /= get_highest_pending_irq /\ ~Deliverable(i)

\* C2: an IAR read while some IRQ is deliverable returns the IRQ chosen by
\* arbitration and in the same step clears its pending bit, sets its active
\* bit, sets running_irq to it and running_priority to its priority; no other
\* pending, active or enabled bit changes.
C2_IarAcknowledges ==
    [][(obs'.op = "IAR" /\ SomeDeliverable) =>
          LET a == ArbitrationChoice IN
          /\ obs'.ret = a
          /\ irq_pending' = irq_pending \ {a}
          /\ irq_active' = irq_active \cup {a}
          /\ irq_enabled' = irq_enabled
          /\ running_irq' = a
          /\ running_priority' = irq_priority[a]]_vars

C2_Witness ==
    /\ obs.op = "IAR"
    /\ obs.ret /= SPURIOUS
    /\ running_irq = obs.ret
    /\ obs.ret \in irq_active
    /\ irq_pending /= {}

\* C3: arbitration returns, among all deliverable IRQs, one with the
\* numerically lowest priority value, and among those the lowest IRQ number.
C3_ArbitrationOrder ==
    LET r == get_highest_pending_irq IN
    r /= NONE =>
        /\ Deliverable(r)
        /\ \A j \in Irqs : Deliverable(j) => Beats(r, j)

C3_Witness ==
    \E i, j \in irq_pending :
        /\ i < j
        /\ Deliverable(i) /\ Deliverable(j)
        /\ irq_priority[i] = irq_priority[j]
        /\ get_highest_pending_irq = i

\* C4: an IAR read when no IRQ is deliverable returns 1023 and leaves every
\* pending, active, enabled and priority value and the running state unchanged.
C4_SpuriousIar ==
    [][(obs'.op = "IAR" /\ ~SomeDeliverable) =>
          /\ obs'.ret = SPURIOUS
          /\ UNCHANGED gicVars]_vars

C4_Witness ==
    /\ obs.op = "IAR"
    /\ obs.ret = SPURIOUS
    /\ irq_pending /= {}
    /\ running_irq /= NONE

\* C5: an EOIR write with IRQ number i < 256 clears active[i]; if i is
\* running_irq the running state becomes idle, otherwise it is unchanged;
\* EOIR never changes a pending or enabled bit.
C5_EoirEffect ==
    [][obs'.op = "EOIR" =>
          /\ irq_pending' = irq_pending
          /\ irq_enabled' = irq_enabled
          /\ obs'.arg < MAX_IRQS =>
                /\ irq_active' = irq_active \ {obs'.arg}
                /\ IF running_irq = obs'.arg
                   THEN running_irq' = NONE /\ running_priority' = IDLE_PRIORITY
                   ELSE UNCHANGED <<running_irq, running_priority>>]_vars

C5_Witness ==
    /\ obs.op = "EOIR"
    /\ obs.hit
    /\ running_irq /= NONE
    /\ running_irq /= obs.arg

\* C6 as stated: for every IRQ i with enabled[i], priority[i] < PMR and
\* pending[i], an IAR read returns i or a deliverable IRQ of higher priority,
\* and sets active[i] and clears pending[i].
C6_AsStated ==
    [][obs'.op = "IAR" =>
          \A i \in Irqs :
              (i \in irq_enabled /\ irq_priority[i] < priority_mask /\ i \in irq_pending) =>
                  /\ \/ obs'.ret = i
                     \/ /\ obs'.ret \in Irqs
                        /\ Deliverable(obs'.ret)
                        /\ irq_priority[obs'.ret] < irq_priority[i]
                  /\ i \in irq_active'
                  /\ i \notin irq_pending']_vars

\* C6 amended: for every deliverable IRQ i, an IAR read returns a deliverable
\* IRQ r that is i itself or beats it (lower priority value, or equal priority
\* and lower IRQ number); it is r whose active bit is set and whose pending bit
\* is cleared, and when r is not i, i stays pending and not active.
C6_IarServesDeliverable ==
    [][obs'.op = "IAR" =>
          \A i \in Irqs :
              Deliverable(i) =>
                  LET r == obs'.ret IN
                  /\ r \in Irqs
                  /\ Deliverable(r)
                  /\ Beats(r, i)
                  /\ r \in irq_active'
                  /\ r \notin irq_pending'
                  /\ r /= i => (i \in irq_pending' /\ i \notin irq_active')]_vars

C6_Witness ==
    /\ obs.op = "IAR"
    /\ obs.ret \in irq_active
    /\ \E i \in irq_pending :
          /\ i \in irq_enabled
          /\ i \notin irq_active
          /\ irq_priority[i] < priority_mask
          /\ irq_priority[obs.ret] <= irq_priority[i]

\* C7 as stated: after an EOIR write of i performed while active[i], active[i]
\* is clear and the next IAR read returns 1023 whenever no IRQ other than i is
\* deliverable.
C7_AsStated ==
    [][/\ (obs'.op = "EOIR" /\ obs'.hit) => obs'.arg \notin irq_active'
       /\ (/\ obs'.op = "IAR"
           /\ obs'.after /= NONE
           /\ \A j \in Irqs \ {obs'.after} : ~Deliverable(j))
          => obs'.ret = SPURIOUS]_vars

\* C7 amended: after an EOIR write of i performed while active[i], active[i]
\* is clear and the next IAR read returns 1023 whenever no IRQ at all, i
\* included, is deliverable (i is deliverable again when it was set pending
\* while it was active).
C7_EoirThenSpurious ==
    [][/\ (obs'.op = "EOIR" /\ obs'.hit) => obs'.arg \notin irq_active'
       /\ (/\ obs'.op = "IAR"
           /\ obs'.after /= NONE
           /\ \A j \in Irqs : ~Deliverable(j))
          => obs'.ret = SPURIOUS]_vars

C7_Witness ==
    /\ obs.op = "IAR"
    /\ obs.after /= NONE
    /\ obs.ret = SPURIOUS
    /\ obs.after \notin irq_active
    /\ dist_enabled /\ cpuif_enabled

\* C8: an HPPIR read returns exactly the id an IAR read would return in the
\* same state (1023 if none) and changes no GIC state.
C8_HppirObserves ==
    [][obs'.op = "HPPIR" =>
          /\ obs'.ret = acknowledge_irq_ret
          /\ obs'.ret = (IF SomeDeliverable THEN ArbitrationChoice ELSE SPURIOUS)
          /\ UNCHANGED gicVars]_vars

C8_Witness ==
    /\ obs.op = "HPPIR"
    /\ obs.ret /= SPURIOUS
    /\ obs.ret \in irq_pending
    /\ obs.ret \notin irq_active

(***************************************************************************)
(* Properties of the exit loop (checked under Spec)                        *)
(***************************************************************************)
\* the order of the steps of one iteration of Hypervisor::run
LoopSteps ==
    {<<"init", "poll">>, <<"poll", "set_irq">>, <<"set_irq", "shadow">>,
     <<"shadow", "disarm">>, <<"disarm", "run">>, <<"run", "guest">>,
     <<"guest", "capture">>, <<"capture", "detect">>, <<"detect", "inject">>,
     <<"inject", "decode">>, <<"decode", "poll">>, <<"decode", "done">>}

\* C9: each iteration of the exit loop runs its steps in the order poll timers,
\* set the IRQ line, copy the guest's CNTV_CTL/CNTV_CVAL into the software
\* timer, disarm the hardware timer, vcpu.run, capture the guest's timer
\* registers, detect firing, inject the IRQ, decode the exit; and whenever
\* vcpu.run() is entered the hardware timer holds ENABLE=0, IMASK=1,
\* CVAL=i64::MAX and no FIQ is pending.
C9_LoopOrder ==
    /\ [](pc = "run" =>
            /\ hw_ctl % 2 = 0
            /\ (hw_ctl \div 2) % 2 = 1
            /\ hw_cval = I64_MAX
            /\ ~fiq_line)
    /\ [][pc' /= pc =>
            /\ <<pc, pc'>> \in LoopSteps
            /\ pc = "poll" =>
                  irq_pending' = irq_pending
                      \cup (IF phys_timer_pending THEN {PHYS_TIMER_IRQ} ELSE {})
                      \cup (IF virt_timer_pending THEN {VIRT_TIMER_IRQ} ELSE {})
            /\ pc = "set_irq" => irq_line' = SomeDeliverable
            /\ pc = "shadow" =>
                  /\ virt_timer' = [ctl |-> hw_ctl % 4, cval |-> hw_cval]
                  /\ UNCHANGED <<hw_ctl, hw_cval>>
            /\ pc = "disarm" => hw_ctl' = 2 /\ hw_cval' = I64_MAX
            /\ pc = "capture" => post_run'.ctl = hw_ctl /\ post_run'.cval = hw_cval
            /\ pc = "inject" =>
                  /\ post_run.fire => VIRT_TIMER_IRQ \in irq_pending'
                  /\ SomeDeliverable' => irq_line'
            /\ pc \notin {"poll", "inject", "decode"} => UNCHANGED gicVars]_vars

C9_Witness ==
    /\ pc = "run"
    /\ virt_timer.ctl = 1
    /\ virt_timer.cval /= I64_MAX
    /\ hw_ctl = 2
    /\ hw_cval = I64_MAX

\* C10: whenever vcpu.run() is entered, the IRQ line is asserted exactly when
\* the GIC has a deliverable IRQ at that moment.
C10_IrqLineAtRun ==
    pc = "run" => (irq_line <=> SomeDeliverable)

C10_Witness ==
    /\ pc = "run"
    /\ irq_line
    /\ SomeDeliverable
    /\ Deliverable(VIRT_TIMER_IRQ)

PsciOffCalls == {Word32(33792, 2), Word32(33792, 8), Word32(33792, 9)}

TerminalExit ==
    \/ exit_info.reason \notin {"EXCEPTION", "VTIMER_ACTIVATED"}
    \/ /\ exit_info.reason = "EXCEPTION"
       /\ \/ exit_info.ec = 60
          \/ exit_info.ec \notin {1, 22, 24, 36}
          \/ exit_info.ec = 22 /\ regs[0] \in PsciOffCalls

C14_DataAbortDecode ==
    [][(pc = "decode" /\ pc' /= "decode"
        /\ exit_info.reason = "EXCEPTION" /\ exit_info.ec = 36) =>
            LET wnr == (exit_info.iss \div 64) % 2
                width == 2 ^ ((exit_info.iss \div 4194304) % 4)
                srt == (exit_info.iss \div 65536) % 32
                ipa == exit_info.physical_address
            IN IF wnr = 1
               THEN /\ trace' = [mmio |-> "write", addr |-> ipa,
                                 value |-> IF srt = 31 THEN 0 ELSE Lo31(regs[srt]),
                                 size |-> width, slept |-> 0]
                    /\ regs' = regs
               ELSE /\ trace'.mmio = "read"
                    /\ trace'.addr = ipa
                    /\ trace'.size = width
                    /\ trace'.value = handle_read_ret(ipa)
                    /\ \A i \in 0..30 :
                        regs'[i] = IF i = srt THEN U64(trace'.value) ELSE regs[i]]_vars

\* a 64-bit load from a device register that reads non-zero went to X17
C14_Witness ==
    /\ trace.mmio = "read"
    /\ trace.size = 8
    /\ trace.value = 1
    /\ regs[17] = U64(1)

(***************************************************************************)
(* C16: for an HVC with function id f in X0, X0 on resume is 0x0001_0000   *)
(* for PSCI_VERSION (0x8400_0000); 0 for CPU_SUSPEND (0xC400_0001) and     *)
(* AFFINITY_INFO (0xC400_0004); -4 for CPU_ON (0xC400_0003); for           *)
(* PSCI_FEATURES (0x8400_000A) 0 when X1 is one of VERSION, CPU_SUSPEND,   *)
(* CPU_OFF, CPU_ON, AFFINITY_INFO, SYSTEM_OFF, SYSTEM_RESET and -1         *)
(* otherwise; -1 for every unknown f.  No other register is modified.      *)
(***************************************************************************)
PsciKnownCalls ==
    {<<0, 0, 33792, 0>>, <<0, 0, 50176, 1>>, <<0, 0, 33792, 2>>, <<0, 0, 50176, 3>>,
     <<0, 0, 50176, 4>>, <<0, 0, 33792, 8>>, <<0, 0, 33792, 9>>}

PsciExpectedX0(f, x1) ==
    IF f = <<0, 0, 33792, 0>> THEN <<0, 0, 1, 0>>
    ELSE IF f \in {<<0, 0, 50176, 1>>, <<0, 0, 50176, 4>>} THEN <<0, 0, 0, 0>>
    ELSE IF f = <<0, 0, 50176, 3>> THEN <<65535, 65535, 65535, 65532>>
    ELSE IF f = <<0, 0, 33792, 10>>
         THEN (IF x1 \in PsciKnownCalls
               THEN <<0, 0, 0, 0>>
               ELSE <<65535, 65535, 65535, 65535>>)
    ELSE <<65535, 65535, 65535, 65535>>

C16_PsciResults ==
    [][(pc = "decode" /\ pc' = "poll"
        /\ exit_info.reason = "EXCEPTION" /\ exit_info.ec = 22) =>
            /\ regs[0] \notin PsciOffCalls
            /\ regs' = [regs EXCEPT ![0] = PsciExpectedX0(regs[0], regs[1])]]_vars

\* PSCI_FEATURES was asked about PSCI_FEATURES itself and answered -1
C16_Witness ==
    /\ pc = "poll"
    /\ regs[0] = <<65535, 65535, 65535, 65535>>
    /\ regs[1] = <<0, 0, 33792, 10>>

(***************************************************************************)
(* C15: on a trapped system register access the handler maps (Op0, Op1,    *)
(* CRn, CRm, Op2) of the ISS to one of exactly ten timer registers, each   *)
(* from a distinct encoding, and performs the read into Xt or the write    *)
(* from Xt on the software timer; for every other encoding a read puts 0   *)
(* in Xt and a write changes no state; Rt = 31 reads as zero and discards  *)
(* writes.                                                                 *)
(***************************************************************************)
TimerRegs ==
    {"CNTFRQ_EL0", "CNTPCT_EL0", "CNTVCT_EL0", "CNTP_CTL_EL0", "CNTP_CVAL_EL0",
     "CNTP_TVAL_EL0", "CNTV_CTL_EL0", "CNTV_CVAL_EL0", "CNTV_TVAL_EL0", "CNTVOFF_EL2"}

\* every (op0, op1, crn, crm, op2) an instruction can carry
AllEncodings == (0..3) \X (0..7) \X (0..15) \X (0..15) \X (0..7)

RegOf(e) == from_encoding(e[1], e[2], e[3], e[4], e[5])

\* the registers that have exactly one encoding
SinglyEncoded ==
    {r \in TimerRegs : Cardinality({e \in AllEncodings : RegOf(e) = r}) = 1}

MappedEncodings == {e \in AllEncodings : RegOf(e) /= "NONE"}

C15_SysregAccess ==
    [][(pc = "decode" /\ pc' /= "decode"
        /\ exit_info.reason = "EXCEPTION" /\ exit_info.ec = 24) =>
            LET iss == exit_info.iss
                e == <<(iss \div 1048576) % 4, (iss \div 16384) % 8, (iss \div 1024) % 16,
                       (iss \div 2) % 16, (iss \div 131072) % 8>>
                rt == (iss \div 32) % 32
                is_read == iss % 2 = 0
                xt == IF rt = 31 THEN U64(0) ELSE regs[rt]
            IN /\ SinglyEncoded = TimerRegs
               /\ Cardinality(MappedEncodings) = 10
               /\ e \in TimerEncodings <=> RegOf(e) \in TimerRegs
               /\ UNCHANGED <<gicVars, hw_ctl, hw_cval, irq_line, fiq_line>>
               /\ IF is_read
                  THEN /\ UNCHANGED <<phys_timer, virt_timer, virt_offset>>
                       /\ \A i \in 0..30 :
                            regs'[i] = IF i /= rt THEN regs[i]
                                       ELSE IF e \in TimerEncodings
                                       THEN U64(read_sysreg(RegOf(e)))
                                       ELSE U64(0)
                  ELSE /\ regs' = regs
                       /\ IF e \in TimerEncodings
                          THEN write_sysreg(RegOf(e), TimerWord(xt))
                          ELSE UNCHANGED <<phys_timer, virt_timer, virt_offset>>]_vars

\* the guest enabled the physical timer and moved CNTVOFF_EL2 by trapped writes
C15_Witness ==
    /\ pc = "poll"
    /\ phys_timer.ctl = 1
    /\ virt_offset = 6
    /\ regs[1] = U64(TIMER_FREQ)

(***************************************************************************)
(* C20: a CTL write stores only ENABLE (bit 0) and IMASK (bit 1) of the    *)
(* written value and ignores every other bit, ISTATUS included; a CTL read *)
(* at counter value c returns the stored ENABLE and IMASK plus ISTATUS     *)
(* (bit 2), which is 1 exactly when ENABLE = 1 and c >= cval.              *)
(***************************************************************************)
CtlValueRead(t, c) ==
    (t.ctl % 2) + 2 * ((t.ctl \div 2) % 2)
        + (IF t.ctl % 2 = 1 /\ c >= t.cval THEN 4 ELSE 0)

CtlAfterWrite(t, x) == [ctl |-> (x % 2) + 2 * ((x \div 2) % 2), cval |-> t.cval]

C20_CtlBits ==
    [][(pc = "decode" /\ pc' /= "decode"
        /\ exit_info.reason = "EXCEPTION" /\ exit_info.ec = 24) =>
            LET iss == exit_info.iss
                rt == (iss \div 32) % 32
                x == IF rt = 31 THEN 0 ELSE Lo31(regs[rt])
                phys_c == now % CounterMod
                virt_c == (now - virt_offset) % CounterMod
            IN /\ (iss - 32 * rt = SysregIss(3, 3, 14, 2, 1, 0, 1)) =>
                    phys_timer' = CtlAfterWrite(phys_timer, x)
               /\ (iss - 32 * rt = SysregIss(3, 3, 14, 3, 1, 0, 1)) =>
                    virt_timer' = CtlAfterWrite(virt_timer, x)
               /\ (iss = SysregIss(3, 3, 14, 2, 1, 1, 0)) =>
                    regs'[1] = U64(CtlValueRead(phys_timer, phys_c))
               /\ (iss = SysregIss(3, 3, 14, 3, 1, 1, 0)) =>
                    regs'[1] = U64(CtlValueRead(virt_timer, virt_c))]_vars

\* the guest wrote IMASK|ISTATUS to CNTP_CTL_EL0: only IMASK was stored
C20_Witness ==
    /\ pc = "poll"
    /\ regs[1] = U64(6)
    /\ phys_timer.ctl = 2

(***************************************************************************)
(* C17: on a WFI/WFE trap the handler first polls the timer IRQs into the  *)
(* GIC; if an IRQ is then pending it advances PC and continues without     *)
(* sleeping; otherwise it sleeps min(time_until_next_event, 10 ms), or     *)
(* 100 us if no timer is armed, then advances PC and continues.            *)
(***************************************************************************)
\* the sleep the handler owes, in nanoseconds
WfiSleepNs ==
    IF time_until_next_event = NONE
    THEN 100000
    ELSE IF time_until_next_event < 10000000 THEN time_until_next_event ELSE 10000000

C17_WfiSleep ==
    [][(pc = "decode" /\ pc' /= "decode"
        /\ exit_info.reason = "EXCEPTION" /\ exit_info.ec = 1) =>
            /\ irq_pending' = irq_pending
                    \cup (IF phys_timer_pending THEN {PHYS_TIMER_IRQ} ELSE {})
                    \cup (IF virt_timer_pending THEN {VIRT_TIMER_IRQ} ELSE {})
            /\ pc' = "poll"
            /\ guest_pc' = guest_pc + 4
            /\ trace'.slept * 1000 = IF has_pending_irq' THEN 0 ELSE WfiSleepNs]_vars

\* a WFI was handled while the physical timer was armed and not yet due
C17_Witness ==
    /\ pc = "poll"
    /\ trace.slept = WFI_SLEEP_US
    /\ time_until_next_event /= NONE
    /\ ~has_pending_irq

(***************************************************************************)
(* C18: on every VTIMER_ACTIVATED exit the loop sets VIRT_TIMER_IRQ (27)   *)
(* pending in the GIC and goes on with the next iteration: it does not     *)
(* return to the caller and changes neither the guest PC nor the           *)
(* general-purpose registers.                                              *)
(***************************************************************************)
C18_VtimerExitContinues ==
    [][(pc = "decode" /\ pc' /= "decode" /\ exit_info.reason = "VTIMER_ACTIVATED") =>
            /\ VIRT_TIMER_IRQ \in irq_pending'
            /\ pc' = "poll"
            /\ result' = NoResult
            /\ guest_pc' = guest_pc
            /\ regs' = regs]_vars

\* back at the head of the loop after a VTIMER_ACTIVATED exit: IRQ 27 is
\* pending and the PC is still the one the exit reported
C18_Witness ==
    /\ pc = "poll"
    /\ VIRT_TIMER_IRQ \in irq_pending
    /\ guest_pc = GuestAddr
    /\ ~result.returned

(***************************************************************************)
(* C19: timer compare values round-trip through guest system register      *)
(* accesses: after the guest writes x to CNTP_CVAL_EL0 (respectively       *)
(* CNTV_CVAL_EL0) and then, with no write to that timer in between, reads  *)
(* the same register, the value read is x, also when each access is a      *)
(* separate trapped exit handled in a different iteration of the loop.     *)
(***************************************************************************)
C19_CvalRoundTrip ==
    [][(pc = "decode" /\ pc' /= "decode"
        /\ exit_info.reason = "EXCEPTION" /\ exit_info.ec = 24) =>
            /\ (exit_info.iss = SysregIss(3, 3, 14, 2, 2, 1, 0)
                /\ guest_wrote_cval.phys /= NONE) =>
                    regs'[1] = U64(guest_wrote_cval.phys)
            /\ (exit_info.iss = SysregIss(3, 3, 14, 3, 2, 1, 0)
                /\ guest_wrote_cval.virt /= NONE) =>
                    regs'[1] = U64(guest_wrote_cval.virt)]_vars

\* the guest reads CNTV_CVAL_EL0 after it wrote 6 to it
C19_Witness ==
    /\ pc = "decode"
    /\ exit_info.ec = 24
    /\ exit_info.iss = SysregIss(3, 3, 14, 3, 2, 1, 0)
    /\ guest_wrote_cval.virt = 6

(***************************************************************************)
(* The Generic Timer as a device: calls on Timer made one at a time while  *)
(* the counter advances (timer.rs, impl Timer)                             *)
(***************************************************************************)
\* TimerReg
TimerRegNames ==
    {"CNTFRQ_EL0", "CNTPCT_EL0", "CNTVCT_EL0", "CNTP_CTL_EL0", "CNTP_CVAL_EL0",
     "CNTP_TVAL_EL0", "CNTV_CTL_EL0", "CNTV_CVAL_EL0", "CNTV_TVAL_EL0", "CNTVOFF_EL2"}

\* the writes a caller makes: <<register, value>>, values at the counter
\* width; a CTL value with ISTATUS set, compare values on both sides of the
\* counter, and writes to the read-only registers
TimerWrites ==
    ({"CNTP_CTL_EL0", "CNTV_CTL_EL0"} \X {1, 3, 5})
    \cup ({"CNTP_CVAL_EL0", "CNTV_CVAL_EL0", "CNTP_TVAL_EL0", "CNTV_TVAL_EL0"}
            \X {1, CounterMod - 1})
    \cup ({"CNTVOFF_EL2", "CNTFRQ_EL0", "CNTPCT_EL0", "CNTVCT_EL0"} \X {1})

\* history: the value and the counter of the last TVAL write to each timer
\* that no later CVAL or TVAL write has replaced

TvalAfterWrite(reg, value) ==
    CASE reg = "CNTP_TVAL_EL0" -> [dev_obs.tval EXCEPT !.phys = [written |-> TRUE, value |-> value,
                                                              at |-> get_phys_counter]]
      [] reg = "CNTP_CVAL_EL0" -> [dev_obs.tval EXCEPT !.phys = NoTvalWrite]
      [] reg = "CNTV_TVAL_EL0" -> [dev_obs.tval EXCEPT !.virt = [written |-> TRUE, value |-> value,
                                                              at |-> get_virt_counter]]
      [] reg = "CNTV_CVAL_EL0" -> [dev_obs.tval EXCEPT !.virt = NoTvalWrite]
      [] OTHER -> dev_obs.tval

\* timer.write_sysreg(reg, value)
TimerWriteSysregOf(writes) ==
    \E w \in writes :
        /\ write_sysreg(w[1], w[2])
        /\ dev_obs' = [NoCall EXCEPT !.op = "write_sysreg", !.reg = w[1], !.value = w[2],
                                     !.tval = TvalAfterWrite(w[1], w[2])]
        /\ UNCHANGED <<gicVars, obs, pc, irq_line, fiq_line, hw_ctl, hw_cval, now,
                       post_run, exit_info, regs, vtimer_offset, guest_pc, result,
                       trace, guest_wrote_cval, handlers, stdout, memVars>>

TimerWriteSysreg == TimerWriteSysregOf(TimerWrites)

\* timer.read_sysreg(reg)
TimerReadSysreg ==
    \E reg \in TimerRegNames :
        /\ dev_obs' = [NoCall EXCEPT !.op = "read_sysreg", !.reg = reg,
                                     !.ret = read_sysreg(reg), !.tval = dev_obs.tval]
        /\ UNCHANGED <<gicVars, obs, loopVars, memVars, handlers, stdout>>

\* timer.time_until_next_event()
TimerUntilNextEvent ==
    /\ dev_obs' = Call("time_until_next_event", 0, time_until_next_event)
    /\ UNCHANGED <<gicVars, obs, loopVars, memVars, handlers, stdout>>

\* time passes between two calls; no call is in progress
TimerTick ==
    /\ now < MaxTime
    /\ now' = now + 1
    /\ dev_obs' = [NoCall EXCEPT !.tval = dev_obs.tval]
    /\ UNCHANGED <<gicVars, obs, pc, irq_line, fiq_line, hw_ctl, hw_cval, virt_timer,
                   phys_timer, post_run, exit_info, regs, vtimer_offset, virt_offset,
                   guest_pc, result, trace, guest_wrote_cval, handlers, stdout, memVars>>

NextTimerDev ==
    \/ TimerWriteSysreg
    \/ TimerReadSysreg
    \/ TimerUntilNextEvent
    \/ TimerTick

SpecTimerDev == InitGic /\ [][NextTimerDev]_vars

(***************************************************************************)
(* C21: a TVAL write of v at counter value c sets cval to c + v, wrapping  *)
(* at the register width, and a TVAL read at counter value c' returns      *)
(* cval - c', wrapping; so a TVAL read that follows a TVAL write of v with *)
(* no other write of the compare value between returns v minus the ticks   *)
(* elapsed since the write, modulo the register width.                     *)
(***************************************************************************)
TvalTimers ==
    {[reg |-> "CNTP_TVAL_EL0", timer |-> "phys"], [reg |-> "CNTV_TVAL_EL0", timer |-> "virt"]}

TimerOf(name) == IF name = "phys" THEN phys_timer ELSE virt_timer

CounterOf(name) == IF name = "phys" THEN get_phys_counter ELSE get_virt_counter

C21_TvalRelative ==
    [][\A x \in TvalTimers :
        /\ (dev_obs'.op = "write_sysreg" /\ dev_obs'.reg = x.reg) =>
              TimerOf(x.timer)'.cval = (CounterOf(x.timer) + dev_obs'.value) % CounterMod
        /\ (dev_obs'.op = "read_sysreg" /\ dev_obs'.reg = x.reg) =>
              /\ dev_obs'.ret = (TimerOf(x.timer).cval - CounterOf(x.timer)) % CounterMod
              /\ dev_obs.tval[x.timer].written =>
                    dev_obs'.ret = (dev_obs.tval[x.timer].value
                                     - (CounterOf(x.timer) - dev_obs.tval[x.timer].at))
                                   % CounterMod]_vars

\* a TVAL read returned a wrapped (negative) value: the deadline written by
\* the preceding TVAL write had passed
C21_Witness ==
    /\ dev_obs.op = "read_sysreg" /\ dev_obs.reg = "CNTP_TVAL_EL0"
    /\ dev_obs.tval.phys.written
    /\ dev_obs.tval.phys.value = 1
    /\ get_phys_counter = dev_obs.tval.phys.at + 2
    /\ dev_obs.ret = CounterMod - 1

(***************************************************************************)
(* The interrupt facade as a device: the timer is programmed, time passes, *)
(* IRQs are raised and lowered by callers, and the timers are polled       *)
(* (interrupt.rs, gic.rs)                                                  *)
(***************************************************************************)
\* the timer programmed before a poll: enabled with or without IMASK, a
\* compare value the counter reaches, and the virtual offset
ProgramTimer ==
    TimerWriteSysregOf(({"CNTP_CTL_EL0", "CNTV_CTL_EL0"} \X {1, 3})
                       \cup ({"CNTP_CVAL_EL0", "CNTV_CVAL_EL0", "CNTVOFF_EL2"} \X {1}))

\* gic.set_irq_pending(irq)
CallSetIrqPending ==
    \E irq \in RaisedIrqs :
        /\ set_irq_pending(irq)
        /\ dev_obs' = [Call("set_irq_pending", irq, 0) EXCEPT !.before = irq_pending]
        /\ UNCHANGED <<obs, loopVars, memVars, handlers, stdout>>

\* gic.clear_irq_pending(irq); ret = 1 and before is kept when the call
\* before it was set_irq_pending(irq)
CallClearIrqPending ==
    \E irq \in RaisedIrqs :
        /\ clear_irq_pending(irq)
        /\ dev_obs' = IF dev_obs.op = "set_irq_pending" /\ dev_obs.value = irq
                      THEN [Call("clear_irq_pending", irq, 1)
                                EXCEPT !.before = dev_obs.before]
                      ELSE Call("clear_irq_pending", irq, 0)
        /\ UNCHANGED <<obs, loopVars, memVars, handlers, stdout>>

\* interrupt_controller.poll_timer_irqs()
CallPollTimerIrqs ==
    /\ poll_timer_irqs
    /\ dev_obs' = Call("poll_timer_irqs", 0, 0)
    /\ UNCHANGED <<obs, loopVars, memVars, handlers, stdout>>

NextFacade ==
    \/ ProgramTimer
    \/ TimerTick
    \/ CallSetIrqPending
    \/ CallClearIrqPending
    \/ CallPollTimerIrqs

SpecFacade == InitGic /\ [][NextFacade]_vars

(***************************************************************************)
(* C22: poll_timer_irqs sets IRQ 30 pending in the GIC exactly when the    *)
(* physical timer is enabled, unmasked and its counter has reached cval at *)
(* the call, and IRQ 27 exactly when the virtual timer is; get_pending_irqs *)
(* lists the same IRQs; the call clears no pending bit and changes no      *)
(* enabled, active, priority or running state.                             *)
(***************************************************************************)
TimerDue(t, counter) == t.ctl % 2 = 1 /\ (t.ctl \div 2) % 2 = 0 /\ counter >= t.cval

DueTimerIrqs ==
    {i \in {PHYS_TIMER_IRQ} : TimerDue(phys_timer, now % CounterMod)}
    \cup {i \in {VIRT_TIMER_IRQ} : TimerDue(virt_timer, (now - virt_offset) % CounterMod)}

C22_PollTimerIrqs ==
    [][dev_obs'.op = "poll_timer_irqs" =>
        /\ irq_pending' = irq_pending \cup DueTimerIrqs
        /\ {get_pending_irqs[k] : k \in 1..Len(get_pending_irqs)} = DueTimerIrqs
        /\ UNCHANGED <<dist_enabled, irq_enabled, irq_active, irq_priority,
                       cpuif_enabled, priority_mask, running_irq, running_priority>>]_vars

\* a poll has just made the physical timer's IRQ pending next to an IRQ that
\* was pending before, while the virtual timer was due but masked
C22_Witness ==
    /\ dev_obs.op = "poll_timer_irqs"
    /\ PHYS_TIMER_IRQ \in irq_pending
    /\ 32 \in irq_pending
    /\ VIRT_TIMER_IRQ \notin irq_pending
    /\ TimerDue(phys_timer, now % CounterMod)
    /\ virt_timer.ctl = 3 /\ (now - virt_offset) % CounterMod >= virt_timer.cval

(***************************************************************************)
(* C23: time_until_next_event returns none exactly when no timer is both   *)
(* enabled and unmasked; otherwise it returns the minimum, over the        *)
(* enabled and unmasked timers, of (cval - counter) * 10^9 / F nanoseconds. *)
(***************************************************************************)
\* the timers with ENABLE set and IMASK clear, each with its own counter
EnabledUnmasked ==
    {x \in {[timer |-> phys_timer, counter |-> now % CounterMod],
             [timer |-> virt_timer, counter |-> (now - virt_offset) % CounterMod]} :
        x.timer.ctl % 2 = 1 /\ (x.timer.ctl \div 2) % 2 = 0}

\* (cval - counter) * 10^9 / 24 000 000, reduced by 10^6
NanosUntil(x) == ((x.timer.cval - x.counter) * 1000) \div 24

C23_TimeUntilNextEvent ==
    [][dev_obs'.op = "time_until_next_event" =>
        /\ (dev_obs'.ret = NONE) <=> (EnabledUnmasked = {})
        /\ EnabledUnmasked /= {} =>
              /\ \E x \in EnabledUnmasked : dev_obs'.ret = NanosUntil(x)
              /\ \A x \in EnabledUnmasked : dev_obs'.ret <= NanosUntil(x)]_vars

\* the physical timer is enabled, unmasked and already due, the virtual
\* timer is off, and the call returned none
C23_Witness ==
    /\ dev_obs.op = "time_until_next_event"
    /\ dev_obs.ret = NONE
    /\ phys_timer.ctl = 1 /\ phys_timer.cval = 1 /\ now % CounterMod = 2
    /\ virt_timer.ctl = 0

(***************************************************************************)
(* The run thread and a device thread on the one shared GIC: every         *)
(* gic.lock() section is one step (gic.rs SharedGicWrapper, lib.rs)        *)
(***************************************************************************)
\* the device thread: gic.lock().unwrap().set_irq_pending(irq)
DeviceSetIrqPending ==
    \E irq \in RaisedIrqs :
        /\ set_irq_pending(irq)
        /\ dev_obs' = Call("set_irq_pending", irq, 0)
        /\ UNCHANGED <<obs, loopVars, memVars, handlers, stdout>>

\* the device thread: gic.lock().unwrap().clear_irq_pending(irq)
DeviceClearIrqPending ==
    \E irq \in RaisedIrqs :
        /\ clear_irq_pending(irq)
        /\ dev_obs' = Call("clear_irq_pending", irq, 0)
        /\ UNCHANGED <<obs, loopVars, memVars, handlers, stdout>>

NextShared ==
    \/ RunStart
    \/ PollTimerIrqs
    \/ SetIrqLine
    \/ ShadowGuestTimer
    \/ DisarmHwTimer
    \/ VcpuEnter
    \/ VcpuExitGicAccess
    \/ CapturePostRun
    \/ DetectTimerFire
    \/ InjectIrq
    \/ HandleDataAbort
    \/ DeviceSetIrqPending
    \/ DeviceClearIrqPending

SpecShared == InitGic /\ [][NextShared]_vars

(***************************************************************************)
(* C24: the GIC is one mutex-guarded object behind the MMIO bus handle,    *)
(* the interrupt facade and any other thread, and every access acts        *)
(* atomically on the same state: under any interleaving of                 *)
(* set_irq_pending(i) from another thread with the run thread's GIC        *)
(* accesses, a pending bit i stays 1 until an IAR read returns i or the    *)
(* bit is explicitly cleared (clear_irq_pending or ICPENDR).               *)
(***************************************************************************)
\* the step is the run thread's MMIO read of GICC_IAR and it returned i
IarReturned(i) ==
    /\ pc = "decode" /\ trace'.mmio = "read"
    /\ trace'.addr = GIC_DIST_BASE + GIC_DIST_SIZE + GICC_IAR
    /\ trace'.value % 1024 = i

\* the step is the run thread's MMIO write to GICD_ICPENDR<n> with bit i set
IcpendrCleared(i) ==
    /\ pc = "decode" /\ trace'.mmio = "write"
    /\ trace'.addr = GIC_DIST_BASE + GICD_ICPENDR + 4 * (i \div 32)
    /\ (trace'.value \div (2 ^ (i % 32))) % 2 = 1

\* the step is a clear_irq_pending(i) call
ClearCalled(i) == pc' = pc /\ dev_obs'.op = "clear_irq_pending" /\ dev_obs'.value = i

C25_SetThenClear ==
    [][/\ (dev_obs'.op \in {"set_irq_pending", "clear_irq_pending"}
            /\ dev_obs'.value >= 256) => UNCHANGED gicVars
       /\ (dev_obs.op = "set_irq_pending" /\ dev_obs'.op = "clear_irq_pending"
            /\ dev_obs'.value = dev_obs.value /\ dev_obs.value <= 255) =>
              /\ dev_obs.value \notin irq_pending'
              /\ \A j \in Irqs \ {dev_obs.value} :
                    (j \in irq_pending') <=> (j \in dev_obs.before)
              /\ UNCHANGED <<dist_enabled, irq_enabled, irq_active, irq_priority,
                             cpuif_enabled, priority_mask, running_irq,
                             running_priority>>]_vars

\* IRQ 27 was raised and at once cleared again while IRQ 30, in the same
\* bitmap word, and IRQ 32 were pending
C25_Witness ==
    /\ dev_obs.op = "clear_irq_pending" /\ dev_obs.value = VIRT_TIMER_IRQ
    /\ dev_obs.ret = 1
    /\ dev_obs.before = {PHYS_TIMER_IRQ, 32}
    /\ irq_pending = {PHYS_TIMER_IRQ, 32}

(***************************************************************************)
(* PL011 UART (uart.rs)                                                    *)
(***************************************************************************)
\* mod regs
DR == 0
RSR_ECR == 4
FR == 24
ILPR == 32
IBRD == 36
FBRD == 40
LCR_H == 44
CR == 48
IFLS == 52
IMSC == 56
RIS == 60
MIS == 64
ICR == 68
DMACR == 72
PERIPHID0 == 4064
CELLID0 == 4080

\* mod fr_bits
CTS == 1
DSR == 2
DCD == 4
BUSY == 8
RXFE == 16
TXFF == 32
RXFF == 64
TXFE == 128

\* mod cr_bits and int_bits
TXE == 256
RXE == 512
TXIM == 32

\* MmioHandler::size of the UART
UART_SIZE == 4096

\* a & b
RECURSIVE BitAnd(_, _)
BitAnd(a, b) ==
    IF a = 0 \/ b = 0 THEN 0
    ELSE (a % 2) * (b % 2) + 2 * BitAnd(a \div 2, b \div 2)

\* Pl011Uart::new
Pl011Uart_new(base_addr) ==
    [kind |-> "uart", base |-> base_addr, ibrd |-> 0, fbrd |-> 0, lcr_h |-> 0,
     cr |-> TXE + RXE, ifls |-> 18, imsc |-> 0, ris |-> TXIM, dmacr |-> 0,
     rsr |-> 0]

get_flags_BusyWhenTxOff(d) ==
    IF BitAnd(d.cr, TXE) /= 0
    THEN TXFE + RXFE + CTS + DSR + DCD
    ELSE BUSY + RXFE + CTS + DSR + DCD

\* Pl011Uart::get_flags: the OR of five distinct flag bits
get_flags(d) == TXFE + RXFE + CTS + DSR + DCD

\* Pl011Uart::get_mis
get_mis(d) == BitAnd(d.ris, d.imsc)

\* MmioHandler::read of the UART
uart_read(d, offset) ==
    CASE offset = DR -> 0
      [] offset = RSR_ECR -> d.rsr
      [] offset = FR -> get_flags(d)
      [] offset = ILPR -> 0
      [] offset = IBRD -> d.ibrd
      [] offset = FBRD -> d.fbrd
      [] offset = LCR_H -> d.lcr_h
      [] offset = CR -> d.cr
      [] offset = IFLS -> d.ifls
      [] offset = IMSC -> d.imsc
      [] offset = RIS -> d.ris
      [] offset = MIS -> get_mis(d)
      [] offset = ICR -> 0
      [] offset = DMACR -> d.dmacr
      [] offset = PERIPHID0 -> 17
      [] offset = PERIPHID0 + 4 -> 16
      [] offset = PERIPHID0 + 8 -> 20
      [] offset = PERIPHID0 + 12 -> 0
      [] offset = CELLID0 -> 13
      [] offset = CELLID0 + 4 -> 240
      [] offset = CELLID0 + 8 -> 5
      [] offset = CELLID0 + 12 -> 177
      [] OTHER -> 0

icr_write_NoReassert(ris, value) == ris - BitAnd(ris, value)

\* the ICR arm of write: ris &= !value, then ris |= TXIM
icr_write(ris, value) ==
    LET cleared == ris - BitAnd(ris, value)
    IN cleared + TXIM - BitAnd(cleared, TXIM)

uart_write_RisWritable(d, offset, value) ==
    CASE offset = RSR_ECR -> [d EXCEPT !.rsr = 0]
      [] offset = IBRD -> [d EXCEPT !.ibrd = value % 65536]
      [] offset = FBRD -> [d EXCEPT !.fbrd = value % 64]
      [] offset = LCR_H -> [d EXCEPT !.lcr_h = value % 256]
      [] offset = CR -> [d EXCEPT !.cr = value % 65536]
      [] offset = IFLS -> [d EXCEPT !.ifls = value % 64]
      [] offset = IMSC -> [d EXCEPT !.imsc = value % 2048]
      [] offset = RIS -> [d EXCEPT !.ris = value % 2048]
      [] offset = ICR -> [d EXCEPT !.ris = icr_write(d.ris, value)]
      [] offset = DMACR -> [d EXCEPT !.dmacr = value % 8]
      [] OTHER -> d

\* MmioHandler::write of the UART: the registers after the write
uart_write(d, offset, value) ==
    CASE offset = RSR_ECR -> [d EXCEPT !.rsr = 0]
      [] offset = IBRD -> [d EXCEPT !.ibrd = value % 65536]
      [] offset = FBRD -> [d EXCEPT !.fbrd = value % 64]
      [] offset = LCR_H -> [d EXCEPT !.lcr_h = value % 256]
      [] offset = CR -> [d EXCEPT !.cr = value % 65536]
      [] offset = IFLS -> [d EXCEPT !.ifls = value % 64]
      [] offset = IMSC -> [d EXCEPT !.imsc = value % 2048]
      [] offset = ICR -> [d EXCEPT !.ris = icr_write(d.ris, value)]
      [] offset = DMACR -> [d EXCEPT !.dmacr = value % 8]
      [] OTHER -> d

\* print!("{}", ch as char): the bytes stdout receives for the char U+00ch
print_char_LowByte(ch) == <<ch>>

print_char(ch) ==
    IF ch < 128 THEN <<ch>> ELSE <<192 + (ch \div 64), 128 + (ch % 64)>>

(***************************************************************************)
(* Split virtqueue (virtio/queue.rs) and VirtIO block device               *)
(* (virtio/block.rs).  The descriptor table and push_used are left out:    *)
(* no operation of the device reads the one or calls the other.            *)
(***************************************************************************)
\* width of avail.idx, used.idx and last_avail_idx (u16)
IdxMod == 65536

\* queue size of the block device
VIRTIO_QUEUE_SIZE == 16

\* mod regs of block.rs and the identification values
MAGIC_VALUE == 0
VERSION == 4
DEVICE_ID == 8
VENDOR_ID == 12
DEVICE_FEATURES == 16
DEVICE_FEATURES_SEL == 20
DRIVER_FEATURES_SEL == 36
QUEUE_SEL == 48
QUEUE_NUM_MAX == 52
QUEUE_NOTIFY == 80
INTERRUPT_STATUS == 96
INTERRUPT_ACK == 100
STATUS == 112
VIRT_MAGIC == 1953655158
VIRT_VERSION == 2
VIRTIO_ID_BLOCK == 2
VIRT_VENDOR == 1431127377
VIRTIO_SIZE == 512

\* VirtQueue::new
VirtQueue_new(num) ==
    [num |-> num,
     avail_idx |-> 0, avail_ring |-> [i \in 1..num |-> 0],
     used_idx |-> 0, used_ring |-> [i \in 1..num |-> [id |-> 0, len |-> 0]],
     last_avail_idx |-> 0]

\* AvailRing::push, reached through VirtQueue::push_avail
push_avail(q, desc_idx) ==
    [q EXCEPT !.avail_ring[(q.avail_idx % q.num) + 1] = desc_idx,
              !.avail_idx = (q.avail_idx + 1) % IdxMod]

pop_avail_ret_SlotOfNext(q) ==
    IF q.last_avail_idx = q.avail_idx THEN NONE
    ELSE q.avail_ring[((q.last_avail_idx + 1) % q.num) + 1]

\* VirtQueue::pop_avail: the value returned
pop_avail_ret(q) ==
    IF q.last_avail_idx = q.avail_idx THEN NONE
    ELSE q.avail_ring[(q.last_avail_idx % q.num) + 1]

\* VirtQueue::pop_avail: the queue afterwards
pop_avail(q) ==
    IF q.last_avail_idx = q.avail_idx THEN q
    ELSE [q EXCEPT !.last_avail_idx = (q.last_avail_idx + 1) % IdxMod]

\* VirtioBlockDevice::new
VirtioBlockDevice_new(base_addr) ==
    [kind |-> "virtio", base |-> base_addr, size |-> VIRTIO_SIZE,
     queue |-> VirtQueue_new(VIRTIO_QUEUE_SIZE), status |-> 0, queue_sel |-> 0,
     device_features_sel |-> 0, driver_features_sel |-> 0]

\* VirtioBlockDevice::process_queue: pops until pop_avail returns none; the
\* body of the loop does nothing with the head
RECURSIVE process_queue(_)
process_queue(q) ==
    IF pop_avail_ret(q) = NONE THEN q ELSE process_queue(pop_avail(q))

\* MmioHandler::read of the block device
virtio_read(d, offset) ==
    CASE offset = MAGIC_VALUE -> VIRT_MAGIC
      [] offset = VERSION -> VIRT_VERSION
      [] offset = DEVICE_ID -> VIRTIO_ID_BLOCK
      [] offset = VENDOR_ID -> VIRT_VENDOR
      [] offset = QUEUE_NUM_MAX -> d.queue.num
      [] offset = STATUS -> d.status
      [] offset = DEVICE_FEATURES -> 0
      [] offset = INTERRUPT_STATUS -> 0
      [] OTHER -> 0

\* MmioHandler::write of the block device; values on the bus stay below
\* 2^31, so the casts to u32 keep them
virtio_write(d, offset, value) ==
    CASE offset = STATUS -> [d EXCEPT !.status = value]
      [] offset = QUEUE_SEL -> [d EXCEPT !.queue_sel = value]
      [] offset = QUEUE_NOTIFY -> [d EXCEPT !.queue = process_queue(d.queue)]
      [] offset = DEVICE_FEATURES_SEL -> [d EXCEPT !.device_features_sel = value]
      [] offset = DRIVER_FEATURES_SEL -> [d EXCEPT !.driver_features_sel = value]
      [] OTHER -> d

(***************************************************************************)
(* MMIO bus built by MmioManager::new and register (mmio.rs)               *)
(***************************************************************************)
\* the DummyDevice of the bus tests
DummyDevice(base, size) == [kind |-> "dummy", base |-> base, size |-> size, data |-> 0]

device_size(d) == IF d.kind = "uart" THEN UART_SIZE ELSE d.size

device_read(d, offset) ==
    CASE d.kind = "uart" -> uart_read(d, offset)
      [] d.kind = "virtio" -> virtio_read(d, offset)
      [] OTHER -> d.data

device_write(d, offset, value) ==
    CASE d.kind = "uart" -> uart_write(d, offset, value)
      [] d.kind = "virtio" -> virtio_write(d, offset, value)
      [] OTHER -> [d EXCEPT !.data = value]

\* the bytes a device's write prints: the DR arm of the UART's write
device_printed(d, offset, value) ==
    IF d.kind = "uart" /\ offset = DR THEN print_char(value % 256) ELSE <<>>

contains_InclusiveEnd(d, addr) == addr >= d.base /\ addr <= d.base + device_size(d)

\* the test of the search loop: addr >= base && addr < base + handler_size
contains(d, addr) == addr >= d.base /\ addr < d.base + device_size(d)

\* index of the first registered handler that contains addr, 0 when none does
find_handler(addr) ==
    IF \E i \in 1..Len(handlers) : contains(handlers[i], addr)
    THEN CHOOSE i \in 1..Len(handlers) :
            /\ contains(handlers[i], addr)
            /\ \A j \in 1..(i - 1) : ~contains(handlers[j], addr)
    ELSE 0

\* MmioManager::handle_read: the value returned
manager_handle_read(addr) ==
    LET i == find_handler(addr)
    IN IF i = 0 THEN 0 ELSE device_read(handlers[i], addr - handlers[i].base)

\* MmioManager::handle_write
manager_handle_write(addr, value) ==
    LET i == find_handler(addr)
    IN IF i = 0
       THEN UNCHANGED <<handlers, stdout>>
       ELSE LET offset == addr - handlers[i].base IN
            /\ handlers' = [handlers EXCEPT ![i] = device_write(@, offset, value)]
            /\ stdout' = stdout \o device_printed(handlers[i], offset, value)

(***************************************************************************)
(* Bounds and inputs of the bus and of the UART                            *)
(***************************************************************************)
\* most handlers registered, most bytes printed
MaxHandlers == 2

MaxOut == 3

\* where the tests and the boot code put the UART
UART_BASE == 150994944

\* devices a program registers: the UART, the dummy device of the bus
\* tests and one that overlaps its upper half
BusDevices ==
    {Pl011Uart_new(UART_BASE), DummyDevice(4096, 256), DummyDevice(4224, 256)}

\* addresses accessed on the bus: around both dummy devices, in no device,
\* the mask register of the UART and the same offset one UART size higher
BusAddrs ==
    {4095, 4096, 4224, 4351, 4352, 4479, 4480, 39321,
     UART_BASE + IMSC, UART_BASE + UART_SIZE + IMSC}

BusValues == {66, 7}

\* UART registers the driver reads
UartReads == {DR, FR, CR, IMSC, RIS, MIS, ICR, PERIPHID0, 256}

\* UART register writes: characters below and above 128 and one with high
\* bits set, UART and transmitter switched off and on, masks, clears, and
\* writes to read-only registers
UartWrites ==
    ({DR} \X {65, 10, 233, 321})
    \cup ({CR} \X {0, 769})
    \cup ({LCR_H} \X {112})
    \cup ({IMSC} \X {16, 2047})
    \cup ({ICR} \X {32, 2047})
    \cup ({FR, RIS, MIS, ILPR, PERIPHID0, CELLID0 + 12, DR + 1, 256} \X {255})

\* manager.register(handler): MmioManager::register pushes the handler
RegisterOf(devices, most) ==
    /\ Len(handlers) < most
    /\ \E d \in devices :
        /\ handlers' = Append(handlers, d)
        /\ dev_obs' = Call("register", 0, 0)
    /\ UNCHANGED <<gicVars, obs, loopVars, memVars, stdout>>

\* manager.handle_read(addr, 4)
BusReadOf(addrs) ==
    /\ \E addr \in addrs :
        dev_obs' = [Call("handle_read", 0, manager_handle_read(addr)) EXCEPT !.addr = addr]
    /\ UNCHANGED <<gicVars, obs, loopVars, memVars, handlers, stdout>>

\* manager.handle_write(addr, value, 4); written records the low byte of
\* a write made to the data register of a registered UART
BusWriteOf(writes) ==
    /\ \E w \in writes :
        /\ manager_handle_write(w[1], w[2])
        /\ Len(stdout') <= MaxOut
        /\ dev_obs' = [Call("handle_write", w[2], 0) EXCEPT
                          !.addr = w[1],
                          !.written =
                              IF \E i \in 1..Len(handlers) :
                                    /\ handlers[i].kind = "uart"
                                    /\ w[1] = handlers[i].base + DR
                              THEN Append(dev_obs.written, w[2] % 256)
                              ELSE dev_obs.written,
                          !.fifo =
                              IF Len(handlers) = 1 /\ handlers[1].kind = "virtio"
                              THEN SubSeq(dev_obs.fifo,
                                          1 + ((handlers'[1].queue.last_avail_idx + IdxMod
                                                - handlers[1].queue.last_avail_idx) % IdxMod),
                                          Len(dev_obs.fifo))
                              ELSE dev_obs.fifo,
                          !.popped =
                              IF Len(handlers) = 1 /\ handlers[1].kind = "virtio"
                              THEN (handlers'[1].queue.last_avail_idx + IdxMod
                                    - handlers[1].queue.last_avail_idx) % IdxMod
                              ELSE 0]
    /\ UNCHANGED <<gicVars, obs, loopVars, memVars>>

RegisterDevice == RegisterOf(BusDevices, MaxHandlers)

BusRead == BusReadOf(BusAddrs)

BusWrite == BusWriteOf(BusAddrs \X BusValues)

NextMmio ==
    \/ RegisterDevice
    \/ BusRead
    \/ BusWrite

SpecMmio == InitGic /\ [][NextMmio]_vars

\* a bus that holds the UART alone
RegisterUart == RegisterOf({Pl011Uart_new(UART_BASE)}, 1)

UartRead == BusReadOf({UART_BASE + o : o \in UartReads})

UartWrite == BusWriteOf({<<UART_BASE + w[1], w[2]>> : w \in UartWrites})

NextUart ==
    \/ RegisterUart
    \/ UartRead
    \/ UartWrite

SpecUart == InitGic /\ [][NextUart]_vars

(***************************************************************************)
(* C26: dispatch of a bus access                                           *)
(***************************************************************************)
\* addr lies in the range [base, base+size) of the device d
InRange(d, addr) == d.base <= addr /\ addr - d.base < device_size(d)

\* registered devices whose range contains addr, by position
Containing(addr) == {i \in 1..Len(handlers) : InRange(handlers[i], addr)}

FirstOf(S) == CHOOSE i \in S : \A j \in S : i <= j

\* C26: handle_read and handle_write forward the access, with offset
\* addr - base, to the device whose range [base, base+size) contains addr
\* (the first registered one when several do) and to no other device: a read
\* returns that device's read and changes nothing, a write changes only
\* that device by its write. When no registered device contains addr the
\* read returns 0, the write succeeds, and no device is invoked or changed.
C26_Dispatch ==
    [][dev_obs'.op \in {"handle_read", "handle_write"} =>
        LET addr == dev_obs'.addr
            hit == Containing(addr)
        IN IF hit = {}
           THEN /\ handlers' = handlers
                /\ stdout' = stdout
                /\ dev_obs'.ret = 0
           ELSE LET i == FirstOf(hit)
                    offset == addr - handlers[i].base
                IN IF dev_obs'.op = "handle_read"
                   THEN /\ handlers' = handlers
                        /\ stdout' = stdout
                        /\ dev_obs'.ret = device_read(handlers[i], offset)
                   ELSE /\ handlers'[i] = device_write(handlers[i], offset, dev_obs'.value)
                        /\ Len(handlers') = Len(handlers)
                        /\ \A j \in 1..Len(handlers) : j /= i => handlers'[j] = handlers[j]
                        /\ dev_obs'.ret = 0]_vars

\* the UART and the dummy device are registered, both have taken a forwarded
\* write (the UART at the offset of IMSC), and a read one byte past the end
\* of the dummy device has just missed and returned 0
C26_Witness ==
    /\ Len(handlers) = 2
    /\ handlers[1].kind = "uart" /\ handlers[1].base = UART_BASE
    /\ handlers[1].imsc = 66
    /\ handlers[2] = [DummyDevice(4096, 256) EXCEPT !.data = 7]
    /\ dev_obs.op = "handle_read"
    /\ dev_obs.addr = 4352
    /\ dev_obs.ret = 0

(***************************************************************************)
(* C27: registered ranges                                                  *)
(***************************************************************************)
\* C27: after any sequence of register calls no two registered devices
\* overlap: their ranges [base, base+size) are pairwise disjoint.
C27_NoOverlap ==
    \A i, j \in 1..Len(handlers) :
        i < j =>
            \/ handlers[i].base + device_size(handlers[i]) <= handlers[j].base
            \/ handlers[j].base + device_size(handlers[j]) <= handlers[i].base

\* register(DummyDevice at 0x1000 of 0x100 bytes) followed by
\* register(DummyDevice at 0x1080 of 0x100 bytes) has been accepted
C27_Witness ==
    /\ handlers = <<DummyDevice(4096, 256), DummyDevice(4224, 256)>>
    /\ dev_obs.op = "register"

(***************************************************************************)
(* C28: UART output                                                        *)
(***************************************************************************)
\* C28: every write to DR emits the low byte of the written value, so the
\* output stream is exactly the sequence of the low bytes of the DR writes
\* in the order they were made, whatever CR, LCR_H and the other registers
\* hold.
C28_OutputIsLowBytes == stdout = dev_obs.written

\* 'A' and then 0xE9 have been written to DR: the output holds 'A' followed
\* by the two bytes C3 A9
C28_Witness ==
    /\ dev_obs.op = "handle_write"
    /\ dev_obs.addr = UART_BASE + DR
    /\ dev_obs.value = 233
    /\ dev_obs.written = <<65, 233>>
    /\ stdout = <<65, 195, 169>>

(***************************************************************************)
(* C29: UART flag register                                                 *)
(***************************************************************************)
HasBit(word, bit) == (word \div bit) % 2 = 1

\* C29: in every reachable UART state, after any sequence of register
\* writes, a read of FR reports TX FIFO empty, RX FIFO empty and CTS, DSR
\* and DCD asserted, with BUSY, TXFF and RXFF clear.
C29_FlagsConstant ==
    \A i \in 1..Len(handlers) :
        handlers[i].kind = "uart" =>
            LET fr == manager_handle_read(handlers[i].base + FR)
            IN /\ \A b \in {TXFE, RXFE, CTS, DSR, DCD} : HasBit(fr, b)
               /\ \A b \in {BUSY, TXFF, RXFF} : ~HasBit(fr, b)

\* FR has just been read as 0x97 on a UART whose CR was cleared (UART and
\* transmitter off), with a mask set, after a character was written
C29_Witness ==
    /\ Len(handlers) = 1
    /\ handlers[1].cr = 0
    /\ handlers[1].imsc = 2047
    /\ handlers[1].lcr_h = 112
    /\ stdout /= <<>>
    /\ dev_obs.op = "handle_read"
    /\ dev_obs.addr = UART_BASE + FR
    /\ dev_obs.ret = 151

(***************************************************************************)
(* C30: UART interrupt registers                                           *)
(***************************************************************************)
\* bits of a that are not bits of b, over the 11 interrupt bits and above
RECURSIVE Without(_, _)
Without(a, b) ==
    IF a = 0 THEN 0
    ELSE (IF a % 2 = 1 /\ b % 2 = 0 THEN 1 ELSE 0) + 2 * Without(a \div 2, b \div 2)

RECURSIVE Both(_, _)
Both(a, b) ==
    IF a = 0 THEN 0
    ELSE (IF a % 2 = 1 /\ b % 2 = 1 THEN 1 ELSE 0) + 2 * Both(a \div 2, b \div 2)

\* C30, ICR part: a write of v to ICR leaves in RIS the bits it had that
\* are not in v, plus TXIM, and changes no other register.
C30_IcrStep ==
    [][(dev_obs'.op = "handle_write" /\ dev_obs'.addr = UART_BASE + ICR /\ Len(handlers) = 1) =>
        LET v == dev_obs'.value
            cleared == Without(handlers[1].ris, v)
        IN handlers' = <<[handlers[1] EXCEPT
                            !.ris = IF HasBit(cleared, TXIM) THEN cleared ELSE cleared + TXIM]>>]_vars

\* C30, state part: TXIM is set in RIS in every reachable state, and a read
\* of MIS equals RIS AND IMSC.
C30_TximAndMis ==
    \A i \in 1..Len(handlers) :
        handlers[i].kind = "uart" =>
            /\ HasBit(manager_handle_read(handlers[i].base + RIS), TXIM)
            /\ manager_handle_read(handlers[i].base + MIS)
                 = Both(manager_handle_read(handlers[i].base + RIS),
                        manager_handle_read(handlers[i].base + IMSC))

\* C30: a write of v to the UART ICR clears the bits of v in RIS and then
\* re-asserts TXIM, so TXIM is set in RIS in every reachable state; a read of
\* MIS always equals RIS AND IMSC.
C30_IcrAndMis == C30_IcrStep /\ []C30_TximAndMis

\* every interrupt bit, TXIM included, has just been written to ICR while
\* every mask bit was set: RIS holds TXIM again and MIS reads as TXIM
C30_Witness ==
    /\ Len(handlers) = 1
    /\ dev_obs.op = "handle_write"
    /\ dev_obs.addr = UART_BASE + ICR
    /\ dev_obs.value = 2047
    /\ handlers[1].imsc = 2047
    /\ handlers[1].ris = TXIM
    /\ manager_handle_read(UART_BASE + MIS) = TXIM

(***************************************************************************)
(* C31: writes outside the UART's write set                                *)
(***************************************************************************)
\* the registers the register map documents as writable
UartWriteSet == {DR, RSR_ECR, IBRD, FBRD, LCR_H, CR, IFLS, IMSC, ICR, DMACR}

\* offsets whose reads are compared: every register of the map, the ID
\* registers and two offsets that name no register
UartProbes ==
    {DR, RSR_ECR, FR, ILPR, IBRD, FBRD, LCR_H, CR, IFLS, IMSC, RIS, MIS, ICR, DMACR,
     DR + 1, 256}
    \cup {PERIPHID0 + k : k \in {0, 4, 8, 12}} \cup {CELLID0 + k : k \in {0, 4, 8, 12}}

\* C31: a write to a UART offset outside the documented write set (the
\* read-only FR, RIS and MIS, the ID registers, offsets of no register) has
\* no observable effect: the read of every offset returns afterwards what it
\* returned before, nothing is printed, and the UART's registers, from which
\* every later read is computed, are unchanged.
C31_IgnoredWrites ==
    [][(/\ dev_obs'.op = "handle_write"
        /\ Len(handlers) = 1
        /\ dev_obs'.addr >= UART_BASE
        /\ (dev_obs'.addr - UART_BASE) \notin UartWriteSet) =>
        /\ \A o \in UartProbes :
              device_read(handlers'[1], o) = device_read(handlers[1], o)
        /\ handlers' = handlers
        /\ stdout' = stdout]_vars

\* 0xFF has just been written to RIS of a UART whose masks are all set and
\* whose CR was cleared: RIS and MIS still read as TXIM
C31_Witness ==
    /\ Len(handlers) = 1
    /\ dev_obs.op = "handle_write"
    /\ dev_obs.addr = UART_BASE + RIS
    /\ dev_obs.value = 255
    /\ handlers[1].imsc = 2047
    /\ handlers[1].cr = 0
    /\ manager_handle_read(UART_BASE + RIS) = TXIM
    /\ manager_handle_read(UART_BASE + MIS) = TXIM

(***************************************************************************)
(* The block device on the bus, with a driver that fills its queue         *)
(***************************************************************************)
\* where the tests put the block device
VIRTIO_BASE == 167772160

\* most entries a driver makes available from the index a device starts at
MaxAvail == 18

\* avail.idx at which a device is put on the bus: fresh, and three short of
\* the wrap of the 16-bit index
QueueStarts == {0, IdxMod - 3}

\* the device after k requests with head 15 were made available and popped:
\* avail.idx = last_avail_idx = k and every slot of the ring holds 15
VirtioAt(k) ==
    IF k = 0 THEN VirtioBlockDevice_new(VIRTIO_BASE)
    ELSE [VirtioBlockDevice_new(VIRTIO_BASE) EXCEPT
            !.queue.avail_idx = k, !.queue.last_avail_idx = k,
            !.queue.avail_ring = [i \in 1..VIRTIO_QUEUE_SIZE |-> 15]]

Outstanding(q) == (q.avail_idx + IdxMod - q.last_avail_idx) % IdxMod

\* heads the driver makes available next: one that changes from lap to lap
\* of the ring, and at every fourth index a second one to choose from
NextHeads(q) ==
    {(q.avail_idx + (q.avail_idx \div q.num)) % q.num}
    \cup (IF q.avail_idx % 4 = 0 THEN {9} ELSE {})

RegisterVirtio == RegisterOf({VirtioAt(k) : k \in QueueStarts}, 1)

\* the driver makes a head available, never more than the queue holds
QueuePushAvail ==
    /\ Len(handlers) = 1
    /\ LET q == handlers[1].queue IN
       /\ Outstanding(q) < q.num
       /\ \E k \in QueueStarts : (q.avail_idx + IdxMod - k) % IdxMod < MaxAvail
       /\ \E head \in NextHeads(q) :
           /\ handlers' = [handlers EXCEPT ![1].queue = push_avail(q, head)]
           /\ dev_obs' = [Call("push_avail", head, 0) EXCEPT
                             !.fifo = Append(dev_obs.fifo, head)]
    /\ UNCHANGED <<gicVars, obs, loopVars, memVars, stdout>>

\* queue.pop_avail()
QueuePopAvail ==
    /\ Len(handlers) = 1
    /\ LET q == handlers[1].queue IN
       /\ handlers' = [handlers EXCEPT ![1].queue = pop_avail(q)]
       /\ dev_obs' = [Call("pop_avail", 0, pop_avail_ret(q)) EXCEPT
                         !.fifo = IF pop_avail_ret(q) = NONE THEN dev_obs.fifo
                                  ELSE Tail(dev_obs.fifo),
                         !.popped = IF pop_avail_ret(q) = NONE THEN 0 ELSE 1]
    /\ UNCHANGED <<gicVars, obs, loopVars, memVars, stdout>>

VirtioRead ==
    BusReadOf({VIRTIO_BASE + o : o \in {MAGIC_VALUE, QUEUE_NUM_MAX, STATUS, INTERRUPT_STATUS}})

VirtioWrite ==
    BusWriteOf({<<VIRTIO_BASE + QUEUE_NOTIFY, 0>>, <<VIRTIO_BASE + STATUS, 15>>,
                <<VIRTIO_BASE + INTERRUPT_ACK, 1>>})

NextVirtio ==
    \/ RegisterVirtio
    \/ QueuePushAvail
    \/ QueuePopAvail
    \/ VirtioRead
    \/ VirtioWrite

SpecVirtio == InitGic /\ [][NextVirtio]_vars

(***************************************************************************)
(* C32: pop_avail                                                          *)
(***************************************************************************)
\* C32: pop_avail returns none exactly when last_avail_idx equals avail.idx,
\* which is exactly when every head made available has been returned, and
\* otherwise returns the oldest head made available and not yet returned:
\* the heads come out in the order they were made available, each once,
\* also across the wrap of the ring slot and of the 16-bit indices, while no
\* more than queue-size entries are outstanding.
C32_PopAvail ==
    [][dev_obs'.op = "pop_avail" =>
        LET q == handlers[1].queue IN
        /\ (dev_obs'.ret = NONE) <=> (q.last_avail_idx = q.avail_idx)
        /\ (dev_obs'.ret = NONE) <=> (dev_obs.fifo = <<>>)
        /\ dev_obs'.ret /= NONE => dev_obs'.ret = Head(dev_obs.fifo)]_vars

\* the device started three short of the index wrap, 16 heads were made
\* available (the ring was full, slots and indices wrapped), and the fifth
\* pop has just returned the head made available at index 1
C32_Witness ==
    /\ Len(handlers) = 1
    /\ dev_obs.op = "pop_avail"
    /\ dev_obs.ret = 1
    /\ handlers[1].queue.avail_idx = 13
    /\ handlers[1].queue.last_avail_idx = 2
    /\ handlers[1].queue.avail_ring[14] = 12
    /\ Len(dev_obs.fifo) = 11

(***************************************************************************)
(* C33: QUEUE_NOTIFY                                                       *)
(***************************************************************************)
\* C33: a QUEUE_NOTIFY write drains the available ring and appends to the
\* used ring one entry for each head popped, in the order popped and with
\* the head as its id; when at least one request completed, bit 0 of
\* INTERRUPT_STATUS is set afterwards.
C33_NotifyCompletes ==
    [][(/\ dev_obs'.op = "handle_write"
        /\ dev_obs'.addr = VIRTIO_BASE + QUEUE_NOTIFY
        /\ Len(handlers) = 1) =>
        LET q == handlers[1].queue
            after == handlers'[1].queue
            heads == dev_obs.fifo
        IN /\ after.last_avail_idx = after.avail_idx
           /\ after.used_idx = (q.used_idx + Len(heads)) % IdxMod
           /\ \A k \in 1..Len(heads) :
                 after.used_ring[((q.used_idx + k - 1) % q.num) + 1].id = heads[k]
           /\ Len(heads) >= 1 =>
                 device_read(handlers'[1], INTERRUPT_STATUS) % 2 = 1]_vars

\* a QUEUE_NOTIFY write has just taken three heads from the available ring:
\* the ring is drained, the used ring is still empty and INTERRUPT_STATUS
\* reads 0
C33_Witness ==
    /\ Len(handlers) = 1
    /\ dev_obs.op = "handle_write"
    /\ dev_obs.addr = VIRTIO_BASE + QUEUE_NOTIFY
    /\ dev_obs.popped = 3
    /\ handlers[1].queue.last_avail_idx = handlers[1].queue.avail_idx
    /\ handlers[1].queue.used_idx = 0
    /\ manager_handle_read(VIRTIO_BASE + INTERRUPT_STATUS) = 0

(***************************************************************************)
(* Guest memory (lib.rs write_byte / read_byte over the mapping's 4-byte   *)
(* accesses).  A 32-bit word is the record of its two 16-bit halves.       *)
(***************************************************************************)
\* the mapping accepts an access of len bytes at addr
in_mapping(addr, len) == addr >= MEM_BASE /\ addr + len <= MEM_BASE + MEM_SIZE

\* u32::to_le_bytes and u32::from_le_bytes
to_le_bytes(w) == <<w.lo % 256, w.lo \div 256, w.hi % 256, w.hi \div 256>>

from_le_bytes(bytes) == [lo |-> bytes[1] + 256 * bytes[2], hi |-> bytes[3] + 256 * bytes[4]]

\* mem.read_dword(addr) and mem.write_dword(addr, word) on a little-endian
\* host, for an address the mapping accepts
read_dword(m, addr) ==
    [lo |-> (IF addr \in Tracked THEN m[addr] ELSE 0)
            + 256 * (IF addr + 1 \in Tracked THEN m[addr + 1] ELSE 0),
     hi |-> (IF addr + 2 \in Tracked THEN m[addr + 2] ELSE 0)
            + 256 * (IF addr + 3 \in Tracked THEN m[addr + 3] ELSE 0)]

write_dword(m, addr, w) ==
    [a \in Tracked |-> IF a >= addr /\ a <= addr + 3 THEN to_le_bytes(w)[a - addr + 1] ELSE m[a]]

write_byte_BigEndian(m, addr, byte) ==
    LET aligned_addr == addr - (addr % 4)
        offset == addr % 4
    IN IF ~in_mapping(aligned_addr, 4) THEN m
       ELSE write_dword(m, aligned_addr,
                from_le_bytes([to_le_bytes(read_dword(m, aligned_addr)) EXCEPT ![4 - offset] = byte]))

\* Hypervisor::write_byte: the memory afterwards (unchanged when the read or
\* the write of the word fails)
write_byte(m, addr, byte) ==
    LET aligned_addr == addr - (addr % 4)
        offset == addr % 4
    IN IF ~in_mapping(aligned_addr, 4) THEN m
       ELSE write_dword(m, aligned_addr,
                from_le_bytes([to_le_bytes(read_dword(m, aligned_addr)) EXCEPT ![offset + 1] = byte]))

\* Hypervisor::write_byte: 0 for Ok, NONE for the memory error
write_byte_ret(addr) == IF in_mapping(addr - (addr % 4), 4) THEN 0 ELSE NONE

\* Hypervisor::read_byte: the byte, NONE for the memory error
read_byte(m, addr) ==
    LET aligned_addr == addr - (addr % 4)
        offset == addr % 4
    IN IF ~in_mapping(aligned_addr, 4) THEN NONE
       ELSE to_le_bytes(read_dword(m, aligned_addr))[offset + 1]

\* addresses accessed: every alignment in the first word, the next word, the
\* last byte of the mapping, and the bytes just outside both ends
ByteAddrs ==
    {MEM_BASE - 1, MEM_BASE, MEM_BASE + 1, MEM_BASE + 2, MEM_BASE + 3, MEM_BASE + 4,
     MEM_BASE + MEM_SIZE - 1, MEM_BASE + MEM_SIZE}

ByteValues == {171, 255}

\* hv.write_byte(addr, byte)
WriteByte ==
    /\ \E addr \in ByteAddrs, byte \in ByteValues :
        /\ mem' = write_byte(mem, addr, byte)
        /\ dev_obs' = [Call("write_byte", byte, write_byte_ret(addr)) EXCEPT !.addr = addr]
    /\ UNCHANGED <<gicVars, obs, loopVars, handlers, stdout, cpsr>>

\* hv.read_byte(addr)
ReadByte ==
    /\ \E addr \in ByteAddrs :
        dev_obs' = [Call("read_byte", 0, read_byte(mem, addr)) EXCEPT !.addr = addr]
    /\ UNCHANGED <<gicVars, obs, loopVars, handlers, stdout, memVars>>

NextMem ==
    \/ WriteByte
    \/ ReadByte

SpecMem == InitGic /\ [][NextMem]_vars

(***************************************************************************)
(* C34: write_byte                                                         *)
(***************************************************************************)
\* C34: write_byte(a, b) changes only the byte at guest address a: afterwards
\* read_byte(a) = b, the byte stored at a is b, and every other byte, read
\* through read_byte or taken from memory, is what it was, for every
\* alignment of a; when a lies outside the mapped region the call is
\* rejected with an error and changes nothing.
C34_WriteByte ==
    [][dev_obs'.op = "write_byte" =>
        LET a == dev_obs'.addr
            b == dev_obs'.value
        IN IF a >= MEM_BASE /\ a < MEM_BASE + MEM_SIZE
           THEN /\ dev_obs'.ret = 0
                /\ read_byte(mem', a) = b
                /\ mem'[a] = b
                /\ \A other \in Tracked \ {a} :
                      /\ mem'[other] = mem[other]
                      /\ read_byte(mem', other) = read_byte(mem, other)
           ELSE /\ dev_obs'.ret = NONE
                /\ mem' = mem]_vars

\* 0xAB has just been written at offset 1 of the first word, whose other
\* three bytes hold 0xFF, and the next word holds 0xAB in its first byte
C34_Witness ==
    /\ dev_obs.op = "write_byte"
    /\ dev_obs.addr = MEM_BASE + 1
    /\ dev_obs.value = 171
    /\ dev_obs.ret = 0
    /\ mem[MEM_BASE] = 255 /\ mem[MEM_BASE + 1] = 171
    /\ mem[MEM_BASE + 2] = 255 /\ mem[MEM_BASE + 3] = 255
    /\ mem[MEM_BASE + 4] = 171

(***************************************************************************)
(* boot_linux (lib.rs)                                                     *)
(***************************************************************************)
\* the blob generate_device_tree returns, by its leading bytes: the FDT magic
DtbBlob == <<208, 13, 254, 237>>

\* kernels handed to boot_linux: KernelImage::from_bytes with the default
\* entry (the one-instruction image of the tests, an empty one, and an
\* eight-byte one), one placed a word below the default DTB address, one at
\* the first word of the mapping, and one whose end lies past the mapping
KernelImages ==
    {[data |-> <<0, 0, 0, 20>>, entry_point |-> DEFAULT_ENTRY],
     [data |-> <<>>, entry_point |-> DEFAULT_ENTRY],
     [data |-> <<1, 2, 3, 4, 5, 6, 7, 8>>, entry_point |-> DEFAULT_ENTRY],
     [data |-> <<1, 2, 3, 4, 5, 6, 7, 8>>, entry_point |-> DEFAULT_DTB_ADDR - 4],
     [data |-> <<0, 0, 0, 20>>, entry_point |-> MEM_BASE],
     [data |-> <<0, 0, 0, 20>>, entry_point |-> MEM_BASE + MEM_SIZE - 2]}

\* the dtb_addr argument: none, or an address
DtbAddrs == {NONE, DEFAULT_DTB_ADDR + 4, DEFAULT_ENTRY + 4, MEM_BASE + 4}

\* the loops "for (i, byte) in bytes: self.write_byte(addr + i, byte)?": the
\* memory afterwards and whether every write succeeded
RECURSIVE write_all(_, _, _)
write_all(m, addr, bytes) ==
    IF bytes = <<>> THEN [mem |-> m, ok |-> TRUE]
    ELSE IF write_byte_ret(addr) = NONE THEN [mem |-> m, ok |-> FALSE]
    ELSE write_all(write_byte(m, addr, Head(bytes)), addr + 1, Tail(bytes))

\* set_reg(X0, dtb_addr), set_reg(X1, 0), set_reg(X2, 0), set_reg(X3, 0)
set_boot_regs(r, dtb_addr) ==
    [r EXCEPT ![0] = U64(dtb_addr), ![1] = U64(0), ![2] = U64(0), ![3] = U64(0)]

\* hv.boot_linux(kernel, cmdline, dtb_addr) up to the top of the exit loop of
\* run(Some(0x3c5), Some(true), Some(kernel_addr)); a failed write_byte
\* returns the error with the bytes written so far left in memory
BootLinux ==
    /\ pc = "init"
    /\ \E kernel \in KernelImages, arg \in DtbAddrs :
        LET dtb_addr == IF arg = NONE THEN DEFAULT_DTB_ADDR ELSE arg
            kernel_addr == kernel.entry_point
            dtb_done == write_all(mem, dtb_addr, DtbBlob)
            done == IF dtb_done.ok THEN write_all(dtb_done.mem, kernel_addr, kernel.data)
                    ELSE dtb_done
        IN /\ mem' = done.mem
           /\ dev_obs' = [Call("boot_linux", kernel_addr, IF done.ok THEN 0 ELSE NONE) EXCEPT
                             !.addr = arg, !.image = kernel.data]
           /\ IF done.ok
              THEN /\ regs' = set_boot_regs(regs, dtb_addr)
                   /\ guest_pc' = kernel_addr
                   /\ cpsr' = BOOT_CPSR
                   /\ pc' = "poll"
                   /\ result' = result
              ELSE /\ pc' = "done"
                   /\ result' = [returned |-> TRUE, error |-> "memory"]
                   /\ UNCHANGED <<regs, guest_pc, cpsr>>
    /\ UNCHANGED <<gicVars, obs, irq_line, fiq_line, hw_ctl, hw_cval, virt_timer, phys_timer,
                   now, post_run, exit_info, vtimer_offset, virt_offset, trace,
                   guest_wrote_cval, handlers, stdout>>

NextBoot ==
    \/ BootLinux
    \/ PollTimerIrqs
    \/ SetIrqLine
    \/ ShadowGuestTimer
    \/ DisarmHwTimer
    \/ VcpuEnter
    \/ VcpuExitException
    \/ CapturePostRun
    \/ DetectTimerFire
    \/ InjectIrq
    \/ HandleWfi
    \/ ReturnOnException

SpecBoot == InitGic /\ [][NextBoot]_vars

(***************************************************************************)
(* C35: guest state at the first entry after boot_linux                    *)
(***************************************************************************)
\* the run thread stands at its first vcpu.run() after boot_linux
FirstEntryAfterBoot ==
    /\ dev_obs.op = "boot_linux"
    /\ pc = "run"
    /\ exit_info = NoExit

\* C35: at the first vcpu.run() entry of boot_linux PC is the kernel entry
\* IPA, X0 the DTB IPA (0x4400_0000 when none is given), X1 = X2 = X3 = 0 and
\* CPSR = 0x3C5, the DTB bytes are in memory at the DTB IPA and the kernel
\* bytes at the entry IPA.
C35_BootState ==
    FirstEntryAfterBoot =>
        LET dtb_ipa == IF dev_obs.addr = NONE THEN DEFAULT_DTB_ADDR ELSE dev_obs.addr
            entry == dev_obs.value
        IN /\ guest_pc = entry
           /\ regs[0] = U64(dtb_ipa)
           /\ regs[1] = U64(0) /\ regs[2] = U64(0) /\ regs[3] = U64(0)
           /\ cpsr = BOOT_CPSR
           /\ \A i \in 1..Len(DtbBlob) : mem[dtb_ipa + i - 1] = DtbBlob[i]
           /\ \A i \in 1..Len(dev_obs.image) : mem[entry + i - 1] = dev_obs.image[i]

\* boot_linux was given no DTB address and an eight-byte kernel that starts a
\* word below 0x4400_0000: the run thread stands at its first vcpu.run() and
\* the word at the DTB address holds the kernel's second word
C35_Witness ==
    /\ FirstEntryAfterBoot
    /\ dev_obs.addr = NONE
    /\ dev_obs.value = DEFAULT_DTB_ADDR - 4
    /\ regs[0] = U64(DEFAULT_DTB_ADDR)
    /\ cpsr = BOOT_CPSR
    /\ mem[DEFAULT_DTB_ADDR] = 5

(***************************************************************************)
(* C36: an active IRQ blocks IRQs of equal or lower priority               *)
(***************************************************************************)
\* the step is an IAR read that returned an IRQ
IarAcknowledged(r) ==
    /\ obs'.op = "IAR"
    /\ obs'.ret = r
    /\ r \in irq_active' \ irq_active

\* C36: while an IRQ a is active, an IAR read returns no IRQ whose priority
\* value is greater than or equal to priority[a]; in particular a preempted
\* IRQ keeps blocking after the EOIR of the IRQ that preempted it.
C36_ActiveBlocks ==
    [][\A r \in Irqs : IarAcknowledged(r) =>
           \A a \in irq_active : irq_priority[r] < irq_priority[a]]_vars

\* IRQ 27 (priority 0x80) is active, IRQ 30 (priority 0) that preempted it
\* has just been ended by an EOIR write, and the IAR read that followed
\* returned IRQ 32, whose priority value 0xA0 is above that of IRQ 27
C36_Witness ==
    /\ obs.op = "IAR"
    /\ obs.ret = 32
    /\ obs.after = PHYS_TIMER_IRQ
    /\ irq_active = {VIRT_TIMER_IRQ, 32}
    /\ irq_priority[VIRT_TIMER_IRQ] = 128
    /\ irq_priority[PHYS_TIMER_IRQ] = 0
    /\ irq_priority[32] = 160
    /\ running_irq = 32
    /\ running_priority = 160

(***************************************************************************)
(* C37: the post-run firing check against the guest's own counter          *)
(***************************************************************************)
\* C37: the exit loop never raises the virtual timer interrupt early: the
\* post-run firing check decides to set IRQ 27 pending only if the guest timer
\* has ENABLE=1 and IMASK=0 and the counter the guest reads in CNTVCT_EL0 (the
\* hardware counter rebased by vtimer_offset) has reached the guest's
\* CNTV_CVAL_EL0.
C37_NeverFiresEarly ==
    [][(pc = "detect" /\ pc' = "inject" /\ post_run'.fire) =>
           /\ post_run.ctl % 2 = 1
           /\ (post_run.ctl \div 2) % 2 = 0
           /\ GuestCounter >= post_run.cval]_vars

\* the firing check has decided to raise IRQ 27 for a guest timer armed with
\* CVAL = 1 while the guest's counter still reads 0: the host counter, one
\* tick ahead by the vtimer offset, has reached the compare value
C37_Witness ==
    /\ pc = "inject"
    /\ post_run = [ctl |-> 1, cval |-> 1, fire |-> TRUE]
    /\ vtimer_offset = 1
    /\ GuestCounter = 0
    /\ HostCounter = 1

(***************************************************************************)
(* InterruptController::enable_timer_irqs on a GIC in any state            *)
(***************************************************************************)
\* the IPRIORITYR writes of enable_timer_irqs as single-byte writes
enable_timer_irqs_priority_ByteWrites(priority) ==
    [priority EXCEPT ![VIRT_TIMER_IRQ] = 128, ![PHYS_TIMER_IRQ] = 128]

\* the two 4-byte IPRIORITYR writes of enable_timer_irqs, in order
enable_timer_irqs_priority(priority) ==
    write_priority(write_priority(priority, VIRT_TIMER_IRQ, 128), PHYS_TIMER_IRQ, 128)

\* ic.enable_timer_irqs(): ISENABLER0 <- bits 30 and 27, then the priorities
CallEnableTimerIrqs ==
    LET mask == 2 ^ PHYS_TIMER_IRQ + 2 ^ VIRT_TIMER_IRQ IN
    /\ irq_enabled' = irq_enabled \cup WordIrqs((GICD_ISENABLER - GICD_ISENABLER) \div 4, mask)
    /\ irq_priority' = enable_timer_irqs_priority(irq_priority)
    /\ UNCHANGED <<dist_enabled, irq_pending, irq_active, cpuif_enabled, priority_mask,
                   running_irq, running_priority>>
    /\ obs' = [OtherObs EXCEPT !.op = "enable_timer_irqs"]
    /\ dev_obs' = [Call("enable_timer_irqs", 0, 0) EXCEPT !.before = irq_priority]
    /\ UNCHANGED <<loopVars, memVars, handlers, stdout>>

\* <<offset, value>> pairs written before and after the call: enable bits of
\* IRQs 27, 28 and 32 set and cleared, priorities of IRQs 24..35 changed
SetupWrites ==
    {<<GICD_ISENABLER, 2 ^ 28>>, <<GICD_ICENABLER, 2 ^ 28>>,
     <<GICD_ICENABLER, 2 ^ VIRT_TIMER_IRQ>>,
     <<GICD_ISENABLER + 4, 1>>, <<GICD_ICENABLER + 4, 1>>,
     <<GICD_IPRIORITYR + 24, 270544960>>,
     <<GICD_IPRIORITYR + 28, 16464>>,
     <<GICD_IPRIORITYR + 32, 96>>}

GicSetupWrite ==
    \E w \in SetupWrites :
        /\ gic_write(w[1], w[2])
        /\ obs' = ObsWrite(w[1], w[2])
        /\ UNCHANGED <<loopVars, devVars>>

NextTimerIrqs ==
    \/ CallEnableTimerIrqs
    \/ GicSetupWrite

SpecTimerIrqs == InitGic /\ [][NextTimerIrqs]_vars

(***************************************************************************)
(* C38: enable_timer_irqs touches IRQ 27 and IRQ 30 only                   *)
(***************************************************************************)
\* C38: enable_timer_irqs sets the enable bits of IRQ 27 and IRQ 30 and their
\* priorities to 0x80, and leaves the priority byte and the enable bit of
\* every other IRQ unchanged.
C38_OnlyTimerIrqs ==
    [][obs'.op = "enable_timer_irqs" =>
           /\ {VIRT_TIMER_IRQ, PHYS_TIMER_IRQ} \subseteq irq_enabled'
           /\ irq_priority'[VIRT_TIMER_IRQ] = 128
           /\ irq_priority'[PHYS_TIMER_IRQ] = 128
           /\ \A i \in Irqs \ {VIRT_TIMER_IRQ, PHYS_TIMER_IRQ} :
                  /\ irq_priority'[i] = irq_priority[i]
                  /\ (i \in irq_enabled') = (i \in irq_enabled)]_vars

\* enable_timer_irqs has just run on a GIC whose IRQs 28, 29, 31, 32 and 33
\* had the reset priority 0xA0: IRQ 27 and IRQ 30 are enabled at 0x80, and
\* the five neighbours are at priority 0
C38_Witness ==
    /\ obs.op = "enable_timer_irqs"
    /\ \A i \in {28, 29, 31, 32, 33} : dev_obs.before[i] = DEFAULT_PRIORITY /\ irq_priority[i] = 0
    /\ irq_priority[VIRT_TIMER_IRQ] = 128
    /\ irq_priority[PHYS_TIMER_IRQ] = 128
    /\ {VIRT_TIMER_IRQ, PHYS_TIMER_IRQ} \subseteq irq_enabled
    /\ irq_priority[34] = DEFAULT_PRIORITY

(***************************************************************************)
(* The tick / nanosecond conversions of timer.rs at machine width.  The    *)
(* u64 of the source is a word of WordBits bits and the two factors are    *)
(* reduced by their common factor 10^6 (24 ticks per 1000 ns), so that a   *)
(* product overflows the word inside the explored range.  An overflowing   *)
(* product panics in a build with overflow checks (debug) and wraps in one *)
(* without (release).                                                      *)
(***************************************************************************)
\* width of the machine word, in bits
WordBits == 16

WordMod == 2 ^ WordBits

\* the literal 1_000_000_000 of both conversions
NANOS_PER_SEC == 1000000000

TicksPerMicro == TIMER_FREQ \div (NANOS_PER_SEC \div 1000)

NanosPerMicro == NANOS_PER_SEC \div (NANOS_PER_SEC \div 1000)

\* the call did not return: the thread panicked
PANIC == NONE - 1

Builds == {"debug", "release"}

\* a * b on words
mul_word(a, b, build) ==
    IF a * b < WordMod THEN a * b
    ELSE IF build = "debug" THEN PANIC
    ELSE (a * b) % WordMod

\* Timer::get_phys_counter: nanos * TIMER_FREQ / 1_000_000_000
phys_counter_at(nanos, build) ==
    LET product == mul_word(nanos % WordMod, TicksPerMicro, build)
    IN IF product = PANIC THEN PANIC ELSE product \div NanosPerMicro

\* the ticks until a timer is due, as a set: empty when it is disabled,
\* masked or already due
due_ticks(t, counter) ==
    IF is_enabled(t) /\ ~is_masked(t) /\ t.cval > counter
    THEN {t.cval - counter}
    ELSE {}

\* Timer::time_until_next_event: ticks * 1_000_000_000 / TIMER_FREQ for the
\* earliest armed timer, NONE when no timer is armed
time_until_next_event_at(phys, virt, offset, nanos, build) ==
    LET phys_counter == phys_counter_at(nanos, build)
        virt_counter == (phys_counter - offset) % WordMod
        min_ticks == due_ticks(phys, phys_counter) \cup due_ticks(virt, virt_counter)
    IN IF phys_counter = PANIC THEN PANIC
       ELSE IF min_ticks = {} THEN NONE
       ELSE LET ticks == CHOOSE m \in min_ticks : \A n \in min_ticks : m <= n
                product == mul_word(ticks, NanosPerMicro, build)
            IN IF product = PANIC THEN PANIC ELSE product \div TicksPerMicro

\* elapsed times at which the counter is read: around the first tick, and
\* around the first and second overflow of nanos * TIMER_FREQ
ElapsedNanos ==
    {0, 41, 42, 1000, WordMod \div TicksPerMicro, WordMod \div TicksPerMicro + 1,
     2 * (WordMod \div TicksPerMicro), 2 * (WordMod \div TicksPerMicro) + 2, WordMod - 1}

\* compare values: small, around the overflow of ticks * 10^9, i64::MAX and
\* u64::MAX at the width of the word
CompareValues ==
    {0, 1, 24, WordMod \div NanosPerMicro, WordMod \div NanosPerMicro + 1,
     WordMod \div 2 - 1, WordMod - 1}

\* the timers a call finds: one or both armed, one masked, both disabled
TimerPairs ==
    [phys : [ctl : {0, 1, 3}, cval : CompareValues], virt : [ctl : {0, 1}, cval : {0, 24}]]

\* the process is alive and time does not go back
ConvCallAt(nanos, build) ==
    /\ dev_obs.ret /= PANIC
    /\ dev_obs.op /= "none" => (nanos >= dev_obs.value /\ build = dev_obs.reg)

\* timer.get_phys_counter() after `nanos` nanoseconds; before is what the
\* call before it returned when that was get_phys_counter too
CallGetPhysCounter ==
    /\ \E nanos \in ElapsedNanos, build \in Builds :
        /\ ConvCallAt(nanos, build)
        /\ dev_obs' = [Call("get_phys_counter", nanos, phys_counter_at(nanos, build)) EXCEPT
                          !.reg = build,
                          !.before = IF dev_obs.op = "get_phys_counter"
                                     THEN dev_obs.ret ELSE NONE]
    /\ UNCHANGED <<gicVars, obs, loopVars, memVars, handlers, stdout>>

\* timer.time_until_next_event() after `nanos` nanoseconds on a timer whose
\* registers are `timers`
CallTimeUntilNextEvent ==
    /\ \E nanos \in {0, 41, 42, 1000}, build \in Builds, timers \in TimerPairs :
        /\ ConvCallAt(nanos, build)
        /\ dev_obs' = [Call("time_until_next_event", nanos,
                            time_until_next_event_at(timers.phys, timers.virt, 0, nanos, build)) EXCEPT
                          !.reg = build,
                          !.before = timers]
    /\ UNCHANGED <<gicVars, obs, loopVars, memVars, handlers, stdout>>

NextConv ==
    \/ CallGetPhysCounter
    \/ CallTimeUntilNextEvent

SpecConv == InitGic /\ [][NextConv]_vars

(***************************************************************************)
(* C39: the conversions are exact                                          *)
(***************************************************************************)
\* floor(nanos * F / 10^9), computed without a word
ExactTicks(nanos) == (nanos * TicksPerMicro) \div NanosPerMicro

\* floor(ticks * 10^9 / F), computed without a word
ExactNanos(ticks) == (ticks * NanosPerMicro) \div TicksPerMicro

\* C39: the tick/nanosecond conversions never overflow the word:
\* get_phys_counter returns floor(elapsed_ns * F / 10^9) modulo the word and
\* never less than the call before it, and time_until_next_event returns
\* floor((cval - counter) * 10^9 / F) for the earliest armed timer, for every
\* cval above the counter, i64::MAX included.
C39_ConversionsExact ==
    /\ dev_obs.op = "get_phys_counter" =>
           /\ dev_obs.ret = ExactTicks(dev_obs.value) % WordMod
           /\ dev_obs.before /= NONE => dev_obs.ret >= dev_obs.before
    /\ dev_obs.op = "time_until_next_event" =>
           LET counter == ExactTicks(dev_obs.value)
               due == due_ticks(dev_obs.before.phys, counter)
                          \cup due_ticks(dev_obs.before.virt, counter)
           IN due /= {} =>
                  \E ticks \in due :
                      /\ \A n \in due : ticks <= n
                      /\ dev_obs.ret = ExactNanos(ticks)

\* a release build read the counter just before and just after
\* nanos * TIMER_FREQ passed the word: the second read returned less than the
\* first
C39_Witness ==
    /\ dev_obs.op = "get_phys_counter"
    /\ dev_obs.reg = "release"
    /\ dev_obs.value = WordMod \div TicksPerMicro + 1
    /\ dev_obs.before = ExactTicks(WordMod \div TicksPerMicro)
    /\ dev_obs.before > 0
    /\ dev_obs.ret = 0

(***************************************************************************)
(* C40: the running IRQ and the running priority agree                     *)
(***************************************************************************)
\* C40: in every reachable GIC state, under any sequence of MMIO reads and
\* writes and set/clear-pending calls, a recorded running IRQ is active, and
\* no IRQ is recorded as running exactly when the running priority is 0xFF.
C40_RunningConsistent ==
    /\ running_irq /= NONE => running_irq \in irq_active
    /\ (running_irq = NONE) <=> (running_priority = IDLE_PRIORITY)

\* IRQ 30 preempted IRQ 27, and IRQ 27 was then ended first: 30 is still the
\* running IRQ, it is the only active one, and the running priority is its own
C40_Witness ==
    /\ obs.op = "EOIR"
    /\ obs.arg = VIRT_TIMER_IRQ
    /\ obs.hit
    /\ running_irq = PHYS_TIMER_IRQ
    /\ irq_active = {PHYS_TIMER_IRQ}
    /\ running_priority = irq_priority[PHYS_TIMER_IRQ]
    /\ running_priority < IDLE_PRIORITY

====
